---- MODULE Spec2Model ----
(***************************************************************************)
(* AiSdkToChunkAdapter: the adapter that pumps an AI SDK fullStream to its *)
(* end and turns every stream part into Cherry Studio chunks handed to the *)
(* onChunk callback (src/renderer/src/aiCore/AiSdkToChunkAdapter.ts).      *)
(*                                                                         *)
(* An optional JavaScript value is a sequence: <<>> is undefined, <<v>> is *)
(* the value v.  Strings are TLA+ strings, += is \o.                       *)
(***************************************************************************)
EXTENDS Integers, Sequences, FiniteSets, TLC

\* The largest number of stream parts the source yields before end-of-stream.
MaxLen == 3

None == <<>>
Some(v) == <<v>>

(***************************************************************************)
(* The stream parts the source may yield (TextStreamPart), with small      *)
(* payload sets.                                                            *)
(***************************************************************************)
TextFragments == {"a", "b"}
ReasoningFragments == {"r", "s"}

\* usage is absent altogether, or present with one counter missing.
Usages ==
    { None,
      Some([completionTokens |-> Some(3), promptTokens |-> Some(5), totalTokens |-> None]) }

\* source.id as the characters of the string: "7" is numeric, "abc" is not.
SourceIds == { <<"7">>, <<"a", "b", "c">> }

\* error payloads: absent, or a message.
ErrorPayloads == { None, Some("rate limited") }

Chunks ==
    {[type |-> "text-delta", textDelta |-> t] : t \in TextFragments}
    \cup {[type |-> "reasoning", textDelta |-> t] : t \in ReasoningFragments}
    \cup {[type |-> "reasoning-signature", signature |-> "sig"]}
    \cup {[type |-> "redacted-reasoning", data |-> "red"]}
    \cup {[type |-> "tool-call-streaming-start", toolCallId |-> "c1", toolName |-> "search"]}
    \cup {[type |-> "tool-call-delta", toolCallId |-> "c1", toolName |-> "search",
           argsTextDelta |-> "{q"]}
    \cup {[type |-> "tool-call", toolCallId |-> "c1", toolName |-> "search",
           args |-> Some("{q:1}")]}
    \cup {[type |-> "tool-result", toolCallId |-> "c1", toolName |-> "search",
           args |-> None, result |-> "hit"]}
    \cup {[type |-> "step-finish", usage |-> u] : u \in Usages}
    \cup {[type |-> "finish", usage |-> u] : u \in Usages}
    \cup {[type |-> "source", source |-> [id |-> i, title |-> "T", url |-> "http://u"]] :
             i \in SourceIds}
    \cup {[type |-> "file", base64 |-> "aW1n"]}
    \cup {[type |-> "error", error |-> e] : e \in ErrorPayloads}
    \cup {[type |-> "foo"]}

\* What Date.now() may return.
NowValues == {1001, 1002}

\* What the promise aiSdkResult.text may resolve to (computed by the AI SDK,
\* not by the adapter).
ResultTexts == {"ab", "zz"}

(***************************************************************************)
(* JavaScript's || on the values the adapter applies it to.                *)
(***************************************************************************)
\* s || d for a string s: the empty string is falsy.
StrOr(s, d) == IF s = "" THEN d ELSE s

\* o || d for an optional string o: undefined and '' are falsy.
OptStrOr(o, d) == IF o = None THEN d ELSE StrOr(o[1], d)

\* o || d for an optional number o: undefined and 0 are falsy.
NumOr(o, d) == IF o = None \/ o = Some(0) THEN d ELSE o[1]

\* o || d for an optional object o (an object is always truthy).
ObjOr(o, d) == IF o = None THEN d ELSE o[1]

\* Number(s) for a string given by its characters: its value when every
\* character is a decimal digit (the empty string gives 0), NaN otherwise.
DigitValue ==
    [c \in {"0", "1", "2", "3", "4", "5", "6", "7", "8", "9"} |->
       CASE c = "0" -> 0 [] c = "1" -> 1 [] c = "2" -> 2 [] c = "3" -> 3 [] c = "4" -> 4
         [] c = "5" -> 5 [] c = "6" -> 6 [] c = "7" -> 7 [] c = "8" -> 8 [] c = "9" -> 9]

RECURSIVE DecimalValue(_)
DecimalValue(cs) ==
    IF cs = <<>> THEN 0
    ELSE 10 * DecimalValue(SubSeq(cs, 1, Len(cs) - 1)) + DigitValue[cs[Len(cs)]]

\* None stands for NaN.
Number(cs) ==
    IF \A i \in 1..Len(cs) : cs[i] \in DOMAIN DigitValue THEN Some(DecimalValue(cs)) ELSE None

(***************************************************************************)
(* onChunk: the sink.  A conversion step calls it with events, in order;   *)
(* the call number sinkFail of the step throws (0: none does).  The result *)
(* holds the calls made, the throwing one included.                        *)
(***************************************************************************)
OnChunk(events, sinkFail) ==
    IF sinkFail \in 1..Len(events)
    THEN [events |-> SubSeq(events, 1, sinkFail), threw |-> "sink"]
    ELSE [events |-> events, threw |-> "none"]

\* The outcome of one convertAndEmitChunk call.
Outcome(final, sunk) == [final |-> final, events |-> sunk.events, threw |-> sunk.threw]

\* The AI SDK tool descriptor the tool events carry.
ToolOf(chunk) ==
    [id |-> chunk.toolName, serverId |-> "ai-sdk", serverName |-> "AI SDK",
     name |-> chunk.toolName, description |-> "",
     inputSchema |-> [type |-> "object", title |-> chunk.toolName, properties |-> "{}"]]

\* usage: { completion_tokens: chunk.usage.completionTokens || 0, ... }
\* (chunk.usage is present here).
UsageOf(chunk) ==
    [completion_tokens |-> NumOr(chunk.usage[1].completionTokens, 0),
     prompt_tokens |-> NumOr(chunk.usage[1].promptTokens, 0),
     total_tokens |-> NumOr(chunk.usage[1].totalTokens, 0)]

\* metrics: chunk.usage ? { ... } : undefined
MetricsOf(chunk) ==
    IF chunk.usage # None
    THEN Some([completion_tokens |-> NumOr(chunk.usage[1].completionTokens, 0),
               time_completion_millsec |-> 0])
    ELSE None

\* Reading chunk.usage.completionTokens throws a TypeError when chunk.usage is
\* undefined.
UsageThrows(chunk) == chunk.usage = None

\* The response object of BLOCK_COMPLETE and LLM_RESPONSE_COMPLETE.
ResponseOf(chunk, final) ==
    [text |-> StrOr(final.text, ""),
     reasoning_content |-> StrOr(final.reasoning_content, ""),
     usage |-> UsageOf(chunk),
     metrics |-> MetricsOf(chunk)]

(***************************************************************************)
(* convertAndEmitChunk, one operator per case of its switch.  final is the *)
(* accumulator { text, reasoning_content }; the result is the accumulator  *)
(* after the call, the onChunk calls made and what the call threw.         *)
(***************************************************************************)
EmitOnly(final, events, sinkFail) == Outcome(final, OnChunk(events, sinkFail))

\* Mutant: TEXT_DELTA carries the whole text buffer instead of the fragment.
TextDeltaCaseEmitsBuffer(chunk, final, sinkFail) ==
    LET appended == [final EXCEPT !.text = @ \o StrOr(chunk.textDelta, "")]
        delta == [type |-> "TEXT_DELTA", text |-> appended.text]
        complete == [type |-> "THINKING_COMPLETE",
                     text |-> StrOr(final.reasoning_content, "")]
        flush == final.reasoning_content # ""
        sunk == OnChunk(IF flush THEN <<delta, complete>> ELSE <<delta>>, sinkFail)
    IN  Outcome(IF flush /\ sunk.threw = "none"
                THEN [appended EXCEPT !.reasoning_content = ""]
                ELSE appended,
                sunk)

\* Mutant: the buffered reasoning is flushed before TEXT_DELTA is delivered.
TextDeltaCaseFlushesFirst(chunk, final, sinkFail) ==
    LET appended == [final EXCEPT !.text = @ \o StrOr(chunk.textDelta, "")]
        delta == [type |-> "TEXT_DELTA", text |-> StrOr(chunk.textDelta, "")]
        complete == [type |-> "THINKING_COMPLETE",
                     text |-> StrOr(final.reasoning_content, "")]
        flush == final.reasoning_content # ""
        sunk == OnChunk(IF flush THEN <<complete, delta>> ELSE <<delta>>, sinkFail)
    IN  Outcome(IF flush /\ sunk.threw = "none"
                THEN [appended EXCEPT !.reasoning_content = ""]
                ELSE appended,
                sunk)

\* Mutant: the reasoning buffer is not cleared after the flush.
TextDeltaCaseKeepsReasoning(chunk, final, sinkFail) ==
    LET appended == [final EXCEPT !.text = @ \o StrOr(chunk.textDelta, "")]
        delta == [type |-> "TEXT_DELTA", text |-> StrOr(chunk.textDelta, "")]
        complete == [type |-> "THINKING_COMPLETE",
                     text |-> StrOr(final.reasoning_content, "")]
        flush == final.reasoning_content # ""
    IN  Outcome(appended, OnChunk(IF flush THEN <<delta, complete>> ELSE <<delta>>, sinkFail))

TextDeltaCase(chunk, final, sinkFail) ==
    LET appended == [final EXCEPT !.text = @ \o StrOr(chunk.textDelta, "")]
        delta == [type |-> "TEXT_DELTA", text |-> StrOr(chunk.textDelta, "")]
        complete == [type |-> "THINKING_COMPLETE",
                     text |-> StrOr(final.reasoning_content, "")]
        flush == final.reasoning_content # ""
        sunk == OnChunk(IF flush THEN <<delta, complete>> ELSE <<delta>>, sinkFail)
    IN  Outcome(IF flush /\ sunk.threw = "none"
                THEN [appended EXCEPT !.reasoning_content = ""]
                ELSE appended,
                sunk)

\* Mutant: a reasoning delta replaces the buffered reasoning.
ReasoningCaseOverwrites(chunk, final, sinkFail) ==
    EmitOnly([final EXCEPT !.reasoning_content = StrOr(chunk.textDelta, "")],
             <<[type |-> "THINKING_DELTA", text |-> StrOr(chunk.textDelta, "")]>>,
             sinkFail)

ReasoningCase(chunk, final, sinkFail) ==
    EmitOnly([final EXCEPT !.reasoning_content = @ \o StrOr(chunk.textDelta, "")],
             <<[type |-> "THINKING_DELTA", text |-> StrOr(chunk.textDelta, "")]>>,
             sinkFail)

\* Mutant: the signature ends the reasoning and empties its buffer.
ReasoningSignatureCaseClears(chunk, final, sinkFail) ==
    EmitOnly([final EXCEPT !.reasoning_content = ""],
             <<[type |-> "THINKING_COMPLETE", text |-> StrOr(chunk.signature, "")]>>,
             sinkFail)

ReasoningSignatureCase(chunk, final, sinkFail) ==
    EmitOnly(final,
             <<[type |-> "THINKING_COMPLETE", text |-> StrOr(chunk.signature, "")]>>,
             sinkFail)

\* Mutant: redacted reasoning is buffered with the reasoning.
RedactedReasoningCaseBuffers(chunk, final, sinkFail) ==
    EmitOnly([final EXCEPT !.reasoning_content = @ \o StrOr(chunk.data, "")],
             <<[type |-> "THINKING_DELTA", text |-> StrOr(chunk.data, "")]>>,
             sinkFail)

RedactedReasoningCase(chunk, final, sinkFail) ==
    EmitOnly(final, <<[type |-> "THINKING_DELTA", text |-> StrOr(chunk.data, "")]>>, sinkFail)

ToolCallStreamingStartCase(chunk, final, sinkFail) ==
    EmitOnly(final,
             <<[type |-> "MCP_TOOL_CREATED",
                tool_calls |-> <<[id |-> chunk.toolCallId, name |-> chunk.toolName,
                                  args |-> Some("{}")]>>]>>,
             sinkFail)

ToolCallDeltaCase(chunk, final, sinkFail) ==
    EmitOnly(final,
             <<[type |-> "MCP_TOOL_IN_PROGRESS",
                responses |-> <<[id |-> chunk.toolCallId, tool |-> ToolOf(chunk),
                                 arguments |-> "{}", status |-> "invoking",
                                 response |-> chunk.argsTextDelta,
                                 toolCallId |-> chunk.toolCallId]>>]>>,
             sinkFail)

ToolCallCase(chunk, final, sinkFail) ==
    EmitOnly(final,
             <<[type |-> "MCP_TOOL_CREATED",
                tool_calls |-> <<[id |-> chunk.toolCallId, name |-> chunk.toolName,
                                  args |-> chunk.args]>>]>>,
             sinkFail)

ToolResultCase(chunk, final, sinkFail) ==
    EmitOnly(final,
             <<[type |-> "MCP_TOOL_COMPLETE",
                responses |-> <<[id |-> chunk.toolCallId, tool |-> ToolOf(chunk),
                                 arguments |-> ObjOr(chunk.args, "{}"), status |-> "done",
                                 response |-> chunk.result,
                                 toolCallId |-> chunk.toolCallId]>>]>>,
             sinkFail)

\* Mutant: a finished step starts the text buffer afresh.
StepFinishCaseResetsText(chunk, final, sinkFail) ==
    IF chunk.usage = None
    THEN [final |-> final, events |-> <<>>, threw |-> "TypeError"]
    ELSE EmitOnly([final EXCEPT !.text = ""],
                  <<[type |-> "BLOCK_COMPLETE",
                     response |-> [text |-> StrOr(final.text, ""),
                                   reasoning_content |-> StrOr(final.reasoning_content, ""),
                                   usage |-> [completion_tokens |-> 0, prompt_tokens |-> 0,
                                              total_tokens |-> 0],
                                   metrics |-> None]]>>,
                  sinkFail)

\* The argument of onChunk is built before the call: with chunk.usage
\* undefined, building it throws and onChunk is not called.
StepFinishCase(chunk, final, sinkFail) ==
    IF UsageThrows(chunk)
    THEN [final |-> final, events |-> <<>>, threw |-> "TypeError"]
    ELSE EmitOnly(final,
                  <<[type |-> "BLOCK_COMPLETE", response |-> ResponseOf(chunk, final)]>>,
                  sinkFail)

\* Mutant: finish flushes the buffered reasoning before anything else.
FinishCaseFlushes(chunk, final, sinkFail) ==
    LET flush == IF final.reasoning_content = "" THEN <<>>
                 ELSE <<[type |-> "THINKING_COMPLETE", text |-> final.reasoning_content]>>
        cleared == [final EXCEPT !.reasoning_content = ""]
        textComplete == [type |-> "TEXT_COMPLETE", text |-> StrOr(final.text, "")]
    IN  IF UsageThrows(chunk)
        THEN Outcome(cleared, OnChunk(flush \o <<textComplete>>, sinkFail))
        ELSE EmitOnly(cleared,
                      flush \o <<textComplete,
                                 [type |-> "LLM_RESPONSE_COMPLETE",
                                  response |-> ResponseOf(chunk, final)]>>,
                      sinkFail)

\* TEXT_COMPLETE is delivered first; LLM_RESPONSE_COMPLETE is built after it.
FinishCase(chunk, final, sinkFail) ==
    LET textComplete == [type |-> "TEXT_COMPLETE", text |-> StrOr(final.text, "")]
        first == OnChunk(<<textComplete>>, sinkFail)
    IN  IF first.threw # "none" THEN Outcome(final, first)
        ELSE IF UsageThrows(chunk)
        THEN [final |-> final, events |-> <<textComplete>>, threw |-> "TypeError"]
        ELSE EmitOnly(final,
                      <<textComplete,
                        [type |-> "LLM_RESPONSE_COMPLETE",
                         response |-> ResponseOf(chunk, final)]>>,
                      sinkFail)

\* Mutant: the id is always Date.now().
SourceCaseAlwaysNow(chunk, final, now, sinkFail) ==
    EmitOnly(final,
             <<[type |-> "KNOWLEDGE_SEARCH_COMPLETE",
                knowledge |-> <<[id |-> now,
                                 content |-> StrOr(chunk.source.title, ""),
                                 sourceUrl |-> StrOr(chunk.source.url, ""),
                                 type |-> "url"]>>]>>,
             sinkFail)

\* id: Number(chunk.source.id) || Date.now(); now is what Date.now() returns.
SourceCase(chunk, final, now, sinkFail) ==
    EmitOnly(final,
             <<[type |-> "KNOWLEDGE_SEARCH_COMPLETE",
                knowledge |-> <<[id |-> NumOr(Number(chunk.source.id), now),
                                 content |-> StrOr(chunk.source.title, ""),
                                 sourceUrl |-> StrOr(chunk.source.url, ""),
                                 type |-> "url"]>>]>>,
             sinkFail)

FileCase(chunk, final, sinkFail) ==
    EmitOnly(final,
             <<[type |-> "IMAGE_COMPLETE",
                image |-> [type |-> "base64", images |-> <<chunk.base64>>]]>>,
             sinkFail)

\* Mutant: the upstream error is thrown instead of delivered.
ErrorCaseThrows(chunk, final, sinkFail) ==
    [final |-> final, events |-> <<>>, threw |-> "TypeError"]

ErrorCase(chunk, final, sinkFail) ==
    EmitOnly(final,
             <<[type |-> "ERROR",
                error |-> [message |-> OptStrOr(chunk.error, "Unknown error")]]>>,
             sinkFail)

\* Mutant: an unrecognized chunk starts the accumulator afresh.
DefaultCaseResets(chunk, final, sinkFail) ==
    [final |-> [text |-> "", reasoning_content |-> ""], events |-> <<>>, threw |-> "none"]

\* default: the chunk is logged only.
DefaultCase(chunk, final, sinkFail) ==
    [final |-> final, events |-> <<>>, threw |-> "none"]

ConvertAndEmitChunk(chunk, final, now, sinkFail) ==
    CASE chunk.type = "text-delta" -> TextDeltaCase(chunk, final, sinkFail)
      [] chunk.type = "reasoning" -> ReasoningCase(chunk, final, sinkFail)
      [] chunk.type = "reasoning-signature" -> ReasoningSignatureCase(chunk, final, sinkFail)
      [] chunk.type = "redacted-reasoning" -> RedactedReasoningCase(chunk, final, sinkFail)
      [] chunk.type = "tool-call-streaming-start" ->
             ToolCallStreamingStartCase(chunk, final, sinkFail)
      [] chunk.type = "tool-call-delta" -> ToolCallDeltaCase(chunk, final, sinkFail)
      [] chunk.type = "tool-call" -> ToolCallCase(chunk, final, sinkFail)
      [] chunk.type = "tool-result" -> ToolResultCase(chunk, final, sinkFail)
      [] chunk.type = "step-finish" -> StepFinishCase(chunk, final, sinkFail)
      [] chunk.type = "finish" -> FinishCase(chunk, final, sinkFail)
      [] chunk.type = "source" -> SourceCase(chunk, final, now, sinkFail)
      [] chunk.type = "file" -> FileCase(chunk, final, sinkFail)
      [] chunk.type = "error" -> ErrorCase(chunk, final, sinkFail)
      [] OTHER -> DefaultCase(chunk, final, sinkFail)

\* The most onChunk calls one convertAndEmitChunk call makes.
SinkCalls == 0..2

(***************************************************************************)
(* AiProviderRegistry and ApiClientFactory.  A ProviderConfig is a record; *)
(* its import is named by the module it imports.  A Map is a function from *)
(* the ids set to their configs.                                           *)
(***************************************************************************)
\* The configs initializeProviders registers, in its order.
providers ==
    <<
      [id |-> "openai", name |-> "OpenAI", import |-> "@ai-sdk/openai",
       creatorFunctionName |-> "createOpenAI"],
      [id |-> "openai-compatible", name |-> "OpenAI Compatible", import |-> "@ai-sdk/openai-compatible",
       creatorFunctionName |-> "createOpenAICompatible"],
      [id |-> "anthropic", name |-> "Anthropic", import |-> "@ai-sdk/anthropic",
       creatorFunctionName |-> "createAnthropic"],
      [id |-> "google", name |-> "Google Generative AI", import |-> "@ai-sdk/google",
       creatorFunctionName |-> "createGoogleGenerativeAI"],
      [id |-> "google-vertex", name |-> "Google Vertex AI", import |-> "@ai-sdk/google-vertex",
       creatorFunctionName |-> "createVertex"],
      [id |-> "mistral", name |-> "Mistral AI", import |-> "@ai-sdk/mistral",
       creatorFunctionName |-> "createMistral"],
      [id |-> "xai", name |-> "xAI (Grok)", import |-> "@ai-sdk/xai",
       creatorFunctionName |-> "createXai"],
      [id |-> "azure", name |-> "Azure OpenAI", import |-> "@ai-sdk/azure",
       creatorFunctionName |-> "createAzure"],
      [id |-> "bedrock", name |-> "Amazon Bedrock", import |-> "@ai-sdk/amazon-bedrock",
       creatorFunctionName |-> "createAmazonBedrock"],
      [id |-> "cohere", name |-> "Cohere", import |-> "@ai-sdk/cohere",
       creatorFunctionName |-> "createCohere"],
      [id |-> "groq", name |-> "Groq", import |-> "@ai-sdk/groq",
       creatorFunctionName |-> "createGroq"],
      [id |-> "together", name |-> "Together.ai", import |-> "@ai-sdk/togetherai",
       creatorFunctionName |-> "createTogetherAI"],
      [id |-> "fireworks", name |-> "Fireworks", import |-> "@ai-sdk/fireworks",
       creatorFunctionName |-> "createFireworks"],
      [id |-> "deepseek", name |-> "DeepSeek", import |-> "@ai-sdk/deepseek",
       creatorFunctionName |-> "createDeepSeek"],
      [id |-> "cerebras", name |-> "Cerebras", import |-> "@ai-sdk/cerebras",
       creatorFunctionName |-> "createCerebras"],
      [id |-> "deepinfra", name |-> "DeepInfra", import |-> "@ai-sdk/deepinfra",
       creatorFunctionName |-> "createDeepInfra"],
      [id |-> "replicate", name |-> "Replicate", import |-> "@ai-sdk/replicate",
       creatorFunctionName |-> "createReplicate"],
      [id |-> "perplexity", name |-> "Perplexity", import |-> "@ai-sdk/perplexity",
       creatorFunctionName |-> "createPerplexity"],
      [id |-> "fal", name |-> "Fal AI", import |-> "@ai-sdk/fal",
       creatorFunctionName |-> "createFal"],
      [id |-> "vercel", name |-> "Vercel", import |-> "@ai-sdk/vercel",
       creatorFunctionName |-> "createVercel"],
      [id |-> "ollama", name |-> "Ollama", import |-> "ollama-ai-provider",
       creatorFunctionName |-> "createOllama"],
      [id |-> "qwen", name |-> "Qwen", import |-> "qwen-ai-provider",
       creatorFunctionName |-> "createQwen"],
      [id |-> "zhipu", name |-> "Zhipu AI", import |-> "zhipu-ai-provider",
       creatorFunctionName |-> "createZhipu"],
      [id |-> "anthropic-vertex", name |-> "Anthropic Vertex AI", import |-> "anthropic-vertex-ai",
       creatorFunctionName |-> "createAnthropicVertex"],
      [id |-> "openrouter", name |-> "OpenRouter", import |-> "@openrouter/ai-sdk-provider",
       creatorFunctionName |-> "createOpenRouter"]
    >>

\* The keys of the type ProviderSettingsMap, the provider ids.
ProviderSettingsMap ==
    {"openai", "openai-compatible", "anthropic", "google", "google-vertex", "mistral",
     "xai", "azure", "bedrock", "cohere", "groq", "together", "fireworks", "deepseek",
     "cerebras", "deepinfra", "replicate", "perplexity", "fal", "vercel", "ollama", "qwen",
     "zhipu", "anthropic-vertex", "openrouter"}

\* registry.set(config.id, config) on a Map.
MapSet(map, config) ==
    [id \in DOMAIN map \cup {config.id} |-> IF id = config.id THEN config ELSE map[id]]

\* new Map().
EmptyMap == [id \in {} |-> None]

RECURSIVE SetAll(_, _)
SetAll(map, configs) ==
    IF configs = <<>> THEN map ELSE SetAll(MapSet(map, Head(configs)), Tail(configs))

\* Mutant: only the twenty official providers are registered.
InitialRegistryOfficialOnly == SetAll(EmptyMap, SubSeq(providers, 1, 20))

\* The registry the constructor leaves: initializeProviders sets every config.
InitialRegistry == SetAll(EmptyMap, providers)

\* Map.has and Map.get (None for undefined).
IsSupported(map, id) == id \in DOMAIN map

GetProvider(map, id) == IF id \in DOMAIN map THEN Some(map[id]) ELSE None

\* What map holds for the ids a call with providerId looks up.
LookedUp(map, providerId) ==
    [id \in DOMAIN map \cap {providerId, "openai-compatible"} |-> map[id]]

\* No createClient call has been made.
IdleClient ==
    [pc |-> "idle", providerId |-> "", effectiveProviderId |-> "", providerConfig |-> None,
     imported |-> FALSE, thrown |-> None, error |-> None]

(***************************************************************************)
(* State.                                                                  *)
(***************************************************************************)
VARIABLES
    aiSdkResult,   \* the argument of processStream: [fullStream |-> BOOLEAN]
    pc,            \* where processStream stands
    locked,        \* the reader holds the stream's lock
    reads,         \* reader.read() calls made
    outstanding,   \* reader.read() calls made and not yet settled
    released,      \* reader.releaseLock() calls made
    readLog,       \* the stream parts read so far, in order
    final,         \* the accumulator of readFullStream
    prevFinal,     \* the accumulator before the last convertAndEmitChunk call
    emittedBy,     \* emittedBy[i]: the onChunk calls made for readLog[i]
    failure,       \* the exception in flight or thrown: none, read, TypeError, sink
    returned,      \* what processStream resolved to, once it has
    resultText,    \* what aiSdkResult.text resolved to, once it has
    twinIdx,       \* a second adapter fed the same parts: parts it has converted
    twinFinal,     \* its accumulator
    twinEmittedBy, \* its onChunk calls, per part
    twinFailure,   \* what its convertAndEmitChunk threw
    peerPc,        \* another adapter, with its own sink and stream: where it stands
    peerLog,       \* the parts it has read
    peerFinal,     \* the accumulator of its readFullStream
    peerEmittedBy, \* the onChunk calls it made, per part
    sharedAt,      \* when the two share a sink: sharedAt[k] is how many parts
                   \* processStream had converted when peerEmittedBy[k] was delivered
    initialized,   \* the registry Map still holds what initializeProviders set
    registered,    \* what registerProvider has set since: provider id -> ProviderConfig
    registryAtCall,\* what the registry held, when the last createClient and getClientInfo
                   \* calls were made, for the ids they look up
    client,        \* the createClient call in flight or last settled
    clientInfo     \* what the last getClientInfo call returned

vars == <<aiSdkResult, pc, locked, reads, outstanding, released, readLog, final, prevFinal,
          emittedBy, failure, returned, resultText, twinIdx, twinFinal, twinEmittedBy, twinFailure,
          peerPc, peerLog, peerFinal, peerEmittedBy, sharedAt,
          initialized, registered, registryAtCall, client, clientInfo>>

twinVars == <<twinIdx, twinFinal, twinEmittedBy, twinFailure>>

peerVars == <<peerPc, peerLog, peerFinal, peerEmittedBy, sharedAt>>

factoryVars == <<initialized, registered, registryAtCall, client, clientInfo>>

\* AiProviderRegistry.registry, the Map from provider id to ProviderConfig:
\* what the constructor set, unless cleared, under what was set since.
registry ==
    LET constructed == IF initialized THEN InitialRegistry ELSE EmptyMap
    IN  [id \in DOMAIN constructed \cup DOMAIN registered |->
            IF id \in DOMAIN registered THEN registered[id] ELSE constructed[id]]

EmptyFinal == [text |-> "", reasoning_content |-> ""]

Init ==
    /\ aiSdkResult \in [fullStream : BOOLEAN]
    /\ pc = "start"
    /\ locked = FALSE
    /\ reads = 0
    /\ outstanding = 0
    /\ released = 0
    /\ readLog = <<>>
    /\ final = EmptyFinal
    /\ prevFinal = EmptyFinal
    /\ emittedBy = <<>>
    /\ failure = "none"
    /\ returned = None
    /\ resultText = None
    /\ twinIdx = 0
    /\ twinFinal = EmptyFinal
    /\ twinEmittedBy = <<>>
    /\ twinFailure = "none"
    /\ peerPc = "start"
    /\ peerLog = <<>>
    /\ peerFinal = EmptyFinal
    /\ peerEmittedBy = <<>>
    /\ sharedAt = <<>>
    /\ initialized = TRUE
    /\ registered = EmptyMap
    /\ registryAtCall = [createClient |-> EmptyMap, getClientInfo |-> EmptyMap]
    /\ client = IdleClient
    /\ clientInfo = None

(***************************************************************************)
(* processStream and readFullStream, one action per step.                  *)
(***************************************************************************)
\* Mutant: the reader is taken whether or not there is a fullStream.
ProcessStreamAlwaysReads ==
    /\ pc = "start"
    /\ locked' = TRUE
    /\ final' = EmptyFinal
    /\ pc' = "read"
    /\ UNCHANGED <<aiSdkResult, reads, outstanding, released, readLog, prevFinal, emittedBy,
                   failure, returned, resultText, twinVars, peerVars, factoryVars>>

\* processStream is called: with a fullStream, readFullStream takes the reader
\* and starts with an empty accumulator; without one, only the text is awaited.
ProcessStream ==
    /\ pc = "start"
    /\ IF aiSdkResult.fullStream
       THEN /\ locked' = TRUE
            /\ final' = EmptyFinal
            /\ pc' = "read"
       ELSE /\ pc' = "text"
            /\ UNCHANGED <<locked, final>>
    /\ UNCHANGED <<aiSdkResult, reads, outstanding, released, readLog, prevFinal, emittedBy, failure,
                   returned, resultText, twinVars, peerVars,
                   factoryVars>>

\* Mutant: the next read is issued while the part just read is still to be
\* converted.
ReadAhead ==
    /\ pc \in {"read", "convert"}
    /\ reads < MaxLen + 1
    /\ reads' = reads + 1
    /\ outstanding' = outstanding + 1
    /\ pc' = IF pc = "read" THEN "await" ELSE pc
    /\ UNCHANGED <<aiSdkResult, locked, released, readLog, final, prevFinal, emittedBy,
                   failure, returned, resultText, twinVars, peerVars,
                   factoryVars>>

\* reader.read() is called at the top of the loop and awaited.
Read ==
    /\ pc = "read"
    /\ reads' = reads + 1
    /\ outstanding' = outstanding + 1
    /\ pc' = "await"
    /\ UNCHANGED <<aiSdkResult, locked, released, readLog, final, prevFinal, emittedBy,
                   failure, returned, resultText, twinVars, peerVars,
                   factoryVars>>

\* await reader.read() gives { done: false, value }.
ReadValue ==
    /\ pc = "await"
    /\ Len(readLog) < MaxLen
    /\ \E value \in Chunks : readLog' = Append(readLog, value)
    /\ outstanding' = outstanding - 1
    /\ pc' = "convert"
    /\ UNCHANGED <<aiSdkResult, locked, reads, released, final, prevFinal, emittedBy,
                   failure, returned, resultText, twinVars, peerVars,
                   factoryVars>>

\* Mutant: done is ignored and the loop goes on to the next read.
ReadDoneIgnored ==
    /\ pc = "await"
    /\ reads < MaxLen + 1
    /\ reads' = reads + 1
    /\ UNCHANGED <<aiSdkResult, pc, locked, outstanding, released, readLog, final, prevFinal,
                   emittedBy, failure, returned, resultText, twinVars, peerVars,
                   factoryVars>>

\* await reader.read() gives { done: true }: break, to the finally block.
ReadDone ==
    /\ pc = "await"
    /\ outstanding' = outstanding - 1
    /\ pc' = "finally"
    /\ UNCHANGED <<aiSdkResult, locked, reads, released, readLog, final, prevFinal,
                   emittedBy, failure, returned, resultText, twinVars, peerVars,
                   factoryVars>>

\* Mutant: a rejected read is caught and the read is tried again.
ReadFailsRetried ==
    /\ pc = "await"
    /\ reads < MaxLen + 1
    /\ outstanding' = outstanding - 1
    /\ failure' = "read"
    /\ pc' = "read"
    /\ UNCHANGED <<aiSdkResult, locked, reads, released, readLog, final, prevFinal,
                   emittedBy, returned, resultText, twinVars, peerVars,
                   factoryVars>>

\* await reader.read() rejects: the exception leaves the loop through finally.
ReadFails ==
    /\ pc = "await"
    /\ outstanding' = outstanding - 1
    /\ failure' = "read"
    /\ pc' = "finally"
    /\ UNCHANGED <<aiSdkResult, locked, reads, released, readLog, final, prevFinal,
                   emittedBy, returned, resultText, twinVars, peerVars,
                   factoryVars>>

\* Mutant: an exception leaves readFullStream without the finally block.
AfterConvertNoFinally(threw) == IF threw = "none" THEN "read" ELSE "rejected"

\* Where the loop goes after convertAndEmitChunk: its next turn, or the
\* finally block when the call threw.
AfterConvert(threw) == IF threw = "none" THEN "read" ELSE "finally"

\* Mutant: after a finish or error part the parts read are dropped.
ConvertAndEmitDropsAfterTerminal ==
    /\ pc = "convert"
    /\ \E now \in NowValues, sinkFail \in SinkCalls :
         LET done == \E i \in 1..(Len(readLog) - 1) :
                         readLog[i].type \in {"finish", "error"}
             out == IF done
                    THEN [final |-> final, events |-> <<>>, threw |-> "none"]
                    ELSE ConvertAndEmitChunk(readLog[Len(readLog)], final, now, sinkFail)
         IN  /\ prevFinal' = final
             /\ final' = out.final
             /\ emittedBy' = Append(emittedBy, out.events)
             /\ failure' = out.threw
             /\ pc' = AfterConvert(out.threw)
    /\ UNCHANGED <<aiSdkResult, locked, reads, outstanding, released, readLog, returned, resultText,
                   twinVars, peerVars,
                   factoryVars>>

\* this.convertAndEmitChunk(value, final), then the next turn of the loop, or
\* the finally block when it threw.
ConvertAndEmit ==
    /\ pc = "convert"
    /\ \E now \in NowValues, sinkFail \in SinkCalls :
         LET out == ConvertAndEmitChunk(readLog[Len(readLog)], final, now, sinkFail)
         IN  /\ prevFinal' = final
             /\ final' = out.final
             /\ emittedBy' = Append(emittedBy, out.events)
             /\ failure' = out.threw
             /\ pc' = AfterConvert(out.threw)
    /\ UNCHANGED <<aiSdkResult, locked, reads, outstanding, released, readLog, returned, resultText,
                   twinVars, peerVars,
                   factoryVars>>

\* finally { reader.releaseLock() }: then readFullStream returns, or the
\* exception goes on and rejects processStream.
ReleaseLock ==
    /\ pc = "finally"
    /\ locked' = FALSE
    /\ released' = released + 1
    /\ pc' = IF failure = "none" THEN "text" ELSE "rejected"
    /\ UNCHANGED <<aiSdkResult, reads, outstanding, readLog, final, prevFinal, emittedBy, failure,
                   returned, resultText, twinVars, peerVars,
                   factoryVars>>

\* Mutant: processStream returns the accumulated text.
ReturnTextFromAccumulator ==
    /\ pc = "text"
    /\ \E t \in ResultTexts :
         /\ resultText' = Some(t)
         /\ returned' = Some(final.text)
    /\ pc' = "resolved"
    /\ UNCHANGED <<aiSdkResult, locked, reads, outstanding, released, readLog, final, prevFinal,
                   emittedBy, failure, twinVars, peerVars,
                   factoryVars>>

\* return await aiSdkResult.text
ReturnText ==
    /\ pc = "text"
    /\ \E t \in ResultTexts :
         /\ resultText' = Some(t)
         /\ returned' = Some(t)
    /\ pc' = "resolved"
    /\ UNCHANGED <<aiSdkResult, locked, reads, outstanding, released, readLog, final, prevFinal,
                   emittedBy, failure, twinVars, peerVars,
                   factoryVars>>

Next ==
    \/ ProcessStream
    \/ Read
    \/ ReadValue
    \/ ReadDone
    \/ ReadFails
    \/ ConvertAndEmit
    \/ ReleaseLock
    \/ ReturnText

Spec == Init /\ [][Next]_vars

(***************************************************************************)
(* A second, independent adapter instance is fed the parts the first one   *)
(* read, in the same order, once the first one has settled; the runs       *)
(* replayed are those in which no sink threw.                              *)
(***************************************************************************)
TwinConvertAndEmit ==
    /\ pc \in {"resolved", "rejected"}
    /\ failure # "sink"
    /\ twinFailure = "none"
    /\ twinIdx < Len(readLog)
    /\ \E now \in NowValues :
         LET out == ConvertAndEmitChunk(readLog[twinIdx + 1], twinFinal, now, 0)
         IN  /\ twinFinal' = out.final
             /\ twinEmittedBy' = Append(twinEmittedBy, out.events)
             /\ twinFailure' = out.threw
    /\ twinIdx' = twinIdx + 1
    /\ UNCHANGED <<aiSdkResult, pc, locked, reads, outstanding, released, readLog, final,
                   prevFinal, emittedBy, failure, returned, resultText, peerVars,
                   factoryVars>>

NextReplay == Next \/ TwinConvertAndEmit

SpecReplay == Init /\ [][NextReplay]_vars

(***************************************************************************)
(* Two adapter instances at work at once, each constructed with its own    *)
(* sink and given its own stream.  The other instance runs the same        *)
(* readFullStream loop: its accumulator is the local of its own call.  Its *)
(* sink and its reads do not throw.  Streams are of up to MaxPairLen parts *)
(* drawn from PairChunks.                                                  *)
(***************************************************************************)
MaxPairLen == 3

PairChunks ==
    {[type |-> "text-delta", textDelta |-> "a"],
     [type |-> "reasoning", textDelta |-> "r"],
     [type |-> "step-finish", finishReason |-> "stop",
      usage |-> Some([completionTokens |-> Some(3), promptTokens |-> Some(5),
                      totalTokens |-> None])]}

\* The first instance's stream is within the bounds of the pair.
PairBounded ==
    /\ Len(readLog) <= MaxPairLen
    /\ \A i \in 1..Len(readLog) : readLog[i] \in PairChunks

\* processStream of the other instance: readFullStream starts with an empty
\* accumulator of its own.
PeerProcessStream ==
    /\ peerPc = "start"
    /\ peerFinal' = EmptyFinal
    /\ peerPc' = "read"
    /\ UNCHANGED <<aiSdkResult, pc, locked, reads, outstanding, released, readLog, final,
                   prevFinal, emittedBy, failure, returned, resultText, twinVars, peerLog,
                   peerEmittedBy, sharedAt, factoryVars>>

\* Its await reader.read() gives a value.
PeerReadValue ==
    /\ peerPc = "read"
    /\ Len(peerLog) < MaxPairLen
    /\ \E value \in PairChunks : peerLog' = Append(peerLog, value)
    /\ peerPc' = "convert"
    /\ UNCHANGED <<aiSdkResult, pc, locked, reads, outstanding, released, readLog, final,
                   prevFinal, emittedBy, failure, returned, resultText, twinVars, peerFinal,
                   peerEmittedBy, sharedAt, factoryVars>>

\* Its await reader.read() gives done: the loop ends and processStream settles.
PeerReadDone ==
    /\ peerPc = "read"
    /\ peerPc' = "settled"
    /\ UNCHANGED <<aiSdkResult, pc, locked, reads, outstanding, released, readLog, final,
                   prevFinal, emittedBy, failure, returned, resultText, twinVars, peerLog,
                   peerFinal, peerEmittedBy, sharedAt, factoryVars>>

\* Mutant: the accumulator is one object all adapters share.
PeerConvertAndEmitSharedFinal ==
    /\ peerPc = "convert"
    /\ \E now \in NowValues :
         LET out == ConvertAndEmitChunk(peerLog[Len(peerLog)], final, now, 0)
         IN  /\ final' = out.final
             /\ peerFinal' = out.final
             /\ peerEmittedBy' = Append(peerEmittedBy, out.events)
             /\ peerPc' = IF out.threw = "none" THEN "read" ELSE "settled"
    /\ UNCHANGED <<aiSdkResult, pc, locked, reads, outstanding, released, readLog,
                   prevFinal, emittedBy, failure, returned, resultText, twinVars, peerLog,
                   sharedAt, factoryVars>>

\* Its convertAndEmitChunk(value, final), on its own accumulator and sink.
PeerConvertAndEmit ==
    /\ peerPc = "convert"
    /\ \E now \in NowValues :
         LET out == ConvertAndEmitChunk(peerLog[Len(peerLog)], peerFinal, now, 0)
         IN  /\ peerFinal' = out.final
             /\ peerEmittedBy' = Append(peerEmittedBy, out.events)
             /\ peerPc' = IF out.threw = "none" THEN "read" ELSE "settled"
    /\ UNCHANGED <<aiSdkResult, pc, locked, reads, outstanding, released, readLog, final,
                   prevFinal, emittedBy, failure, returned, resultText, twinVars, peerLog,
                   sharedAt, factoryVars>>

NextPair ==
    \/ Next /\ PairBounded'
    \/ PeerProcessStream
    \/ PeerReadValue
    \/ PeerReadDone
    \/ PeerConvertAndEmit

SpecPair == Init /\ [][NextPair]_vars

(***************************************************************************)
(* One adapter instance runs two processStream calls at once, on two       *)
(* streams: the second call goes as the other adapter's does, each call    *)
(* with the accumulator readFullStream declares for it, but both deliver   *)
(* to the one onChunk of the instance.  convertAndEmitChunk is synchronous, *)
(* so the calls the sink gets for one part are not interleaved with the    *)
(* other call's.  The two streams carry different fragments.               *)
(***************************************************************************)
MaxCallLen == 2

FirstCallChunks ==
    {[type |-> "text-delta", textDelta |-> "a"],
     [type |-> "reasoning", textDelta |-> "r"],
     [type |-> "finish",
      usage |-> Some([completionTokens |-> Some(3), promptTokens |-> Some(5),
                      totalTokens |-> None])]}

SecondCallChunks ==
    {[type |-> "text-delta", textDelta |-> "b"],
     [type |-> "reasoning", textDelta |-> "s"],
     [type |-> "finish",
      usage |-> Some([completionTokens |-> Some(3), promptTokens |-> Some(5),
                      totalTokens |-> None])]}

\* The first call's stream is within the bounds of the two calls.
CallsBounded ==
    /\ Len(readLog) <= MaxCallLen
    /\ \A i \in 1..Len(readLog) : readLog[i] \in FirstCallChunks

\* Mutant: the accumulator is a field of the instance, which both calls use.
SecondReadAndConvertInstanceFinal ==
    /\ peerPc = "read"
    /\ Len(peerLog) < MaxCallLen
    /\ \E value \in SecondCallChunks, now \in NowValues, sinkFail \in SinkCalls :
         LET out == ConvertAndEmitChunk(value, final, now, sinkFail)
         IN  /\ peerLog' = Append(peerLog, value)
             /\ final' = out.final
             /\ peerFinal' = out.final
             /\ peerEmittedBy' = Append(peerEmittedBy, out.events)
             /\ peerPc' = IF out.threw = "none" THEN "read" ELSE "rejected"
    /\ sharedAt' = Append(sharedAt, Len(emittedBy))
    /\ UNCHANGED <<aiSdkResult, pc, locked, reads, outstanding, released, readLog,
                   prevFinal, emittedBy, failure, returned, resultText, twinVars,
                   factoryVars>>

\* The second call's await reader.read() gives a value, and in the same turn
\* of the event loop convertAndEmitChunk(value, final) runs, on the
\* accumulator of the call's own readFullStream and the sink of the instance.
SecondReadAndConvert ==
    /\ peerPc = "read"
    /\ Len(peerLog) < MaxCallLen
    /\ \E value \in SecondCallChunks, now \in NowValues, sinkFail \in SinkCalls :
         LET out == ConvertAndEmitChunk(value, peerFinal, now, sinkFail)
         IN  /\ peerLog' = Append(peerLog, value)
             /\ peerFinal' = out.final
             /\ peerEmittedBy' = Append(peerEmittedBy, out.events)
             /\ peerPc' = IF out.threw = "none" THEN "read" ELSE "rejected"
    /\ sharedAt' = Append(sharedAt, Len(emittedBy))
    /\ UNCHANGED <<aiSdkResult, pc, locked, reads, outstanding, released, readLog, final,
                   prevFinal, emittedBy, failure, returned, resultText, twinVars,
                   factoryVars>>

NextCalls ==
    \/ Next /\ CallsBounded'
    \/ PeerProcessStream
    \/ SecondReadAndConvert
    \/ PeerReadDone

SpecCalls == Init /\ [][NextCalls]_vars

(***************************************************************************)
(* processStream on a finite stream whose reads all return and whose text  *)
(* promise resolves: no read rejects, and a step that can be taken is      *)
(* taken in the end (the event loop resumes an async function once the     *)
(* promise it awaits has settled).                                         *)
(***************************************************************************)
LiveChunks == {c \in Chunks : c.type \in {"text-delta", "reasoning", "step-finish"}}

LiveBounded == \A i \in 1..Len(readLog) : readLog[i] \in LiveChunks

NextLive ==
    \/ ProcessStream
    \/ Read
    \/ ReadValue /\ LiveBounded'
    \/ ReadDone
    \/ ConvertAndEmit
    \/ ReleaseLock
    \/ ReturnText

SpecLive == Init /\ [][NextLive]_vars /\ WF_vars(NextLive)

(***************************************************************************)
(* ApiClientFactory over the registry singleton: createClient (up to its   *)
(* await of the dynamic import, and from there on), getClientInfo, and the *)
(* registry's registerProvider and cleanup.  One createClient call is in   *)
(* flight at a time.                                                       *)
(***************************************************************************)
\* The provider ids callers ask for: two registered at construction, two not.
RequestedIds == {"openai", "openai-compatible", "custom", "unlisted"}

\* The configs callers register.
RegisteredConfigs ==
    {[id |-> "custom", name |-> "Custom", import |-> "custom-provider",
      creatorFunctionName |-> "createCustom"],
     [id |-> "openai-compatible", name |-> "OpenAI Compatible",
      import |-> "@ai-sdk/openai-compatible",
      creatorFunctionName |-> "createOpenAICompatible"]}

\* What the import and the calls after it can do: the import rejects (with an
\* Error or with another value), the module lacks the creator function, the
\* creator throws, it returns something that is not a function, the provider
\* throws on the model id, or it returns the model.
ImportOutcomes ==
    {"import rejects", "import rejects with a non-Error", "creator missing", "creator throws",
     "provider not callable", "provider throws", "model"}

\* new ClientFactoryError(message, providerId, cause).
ClientFactoryError(message, providerId, cause) ==
    [name |-> "ClientFactoryError", message |-> message, providerId |-> providerId,
     cause |-> cause]

\* What the import, the creator and the provider throw: an Error with a
\* message, or a value that is no Error (a string).
ErrorValue(message) ==
    [name |-> "Error", message |-> message, providerId |-> None, cause |-> None]

ThrownString == [name |-> "string", message |-> "", providerId |-> None, cause |-> None]

\* error instanceof Error (ClientFactoryError extends Error).
InstanceOfError(error) == error.name \in {"Error", "ClientFactoryError"}

\* The catch block's wrapping of an exception that is no ClientFactoryError.
FailedToCreate(providerId, error) ==
    ClientFactoryError("Failed to create client for provider \"" \o providerId \o "\": "
                           \o (IF InstanceOfError(error) THEN error.message
                               ELSE "Unknown error"),
                       Some(providerId),
                       IF InstanceOfError(error) THEN Some(error) ELSE None)

\* Mutant: the catch block rethrows whatever it caught.
CatchRethrowsAll(error, providerId) == error

\* The catch block: a ClientFactoryError is rethrown, anything else wrapped.
Catch(error, providerId) ==
    IF error.name = "ClientFactoryError" THEN error ELSE FailedToCreate(providerId, error)

\* aiProviderRegistry.isSupported(providerId) ? providerId : 'openai-compatible'
EffectiveProviderId(map, providerId) ==
    IF IsSupported(map, providerId) THEN providerId ELSE "openai-compatible"

\* registerProvider(config).
RegisterProvider ==
    /\ \E config \in RegisteredConfigs : registered' = MapSet(registered, config)
    /\ UNCHANGED <<aiSdkResult, pc, locked, reads, outstanding, released, readLog, final,
                   prevFinal, emittedBy, failure, returned, resultText, twinVars, peerVars,
                   initialized, registryAtCall, client, clientInfo>>

\* cleanup(): registry.clear().
Cleanup ==
    /\ initialized' = FALSE
    /\ registered' = EmptyMap
    /\ UNCHANGED <<aiSdkResult, pc, locked, reads, outstanding, released, readLog, final,
                   prevFinal, emittedBy, failure, returned, resultText, twinVars, peerVars,
                   registryAtCall, client, clientInfo>>

\* getClientInfo(providerId).
GetClientInfo(providerId) ==
    LET effectiveProviderId == EffectiveProviderId(registry, providerId)
        provider == GetProvider(registry, effectiveProviderId)
    IN  /\ clientInfo' = Some([id |-> providerId,
                               name |-> IF provider = None THEN providerId
                                        ELSE StrOr(provider[1].name, providerId),
                               isSupported |-> IsSupported(registry, providerId),
                               effectiveProvider |-> effectiveProviderId])
        /\ registryAtCall' = [registryAtCall EXCEPT
                                  !.getClientInfo = LookedUp(registry, providerId)]
        /\ UNCHANGED <<aiSdkResult, pc, locked, reads, outstanding, released, readLog, final,
                       prevFinal, emittedBy, failure, returned, resultText, twinVars,
                       peerVars, initialized, registered, client>>

\* Mutant: the requested id is looked up as it is, without the fallback.
CreateClientNoFallback(providerId) ==
    LET providerConfig == GetProvider(registry, providerId)
    IN  /\ client.pc # "importing"
        /\ client' = [pc |-> IF providerConfig = None THEN "rejected" ELSE "importing",
                      providerId |-> providerId,
                      effectiveProviderId |-> providerId,
                      providerConfig |-> providerConfig,
                      imported |-> providerConfig # None,
                      thrown |-> IF providerConfig = None
                                 THEN Some(ClientFactoryError(
                                          "Provider \"" \o providerId
                                              \o "\" is not registered",
                                          Some(providerId), None))
                                 ELSE None,
                      error |-> IF providerConfig = None
                                THEN Some(Catch(ClientFactoryError(
                                                    "Provider \"" \o providerId
                                                        \o "\" is not registered",
                                                    Some(providerId), None),
                                                providerId))
                                ELSE None]
        /\ registryAtCall' = [registryAtCall EXCEPT
                                  !.createClient = LookedUp(registry, providerId)]
        /\ UNCHANGED <<aiSdkResult, pc, locked, reads, outstanding, released, readLog, final,
                       prevFinal, emittedBy, failure, returned, resultText, twinVars,
                       peerVars, initialized, registered, clientInfo>>

\* Mutant: an id that is not registered falls back to the config the
\* constructor registered for 'openai-compatible', whatever the registry holds.
CreateClientStaticFallback(providerId) ==
    LET effectiveProviderId == EffectiveProviderId(registry, providerId)
        providerConfig == IF IsSupported(registry, providerId)
                          THEN GetProvider(registry, providerId)
                          ELSE GetProvider(InitialRegistry, "openai-compatible")
    IN  /\ client.pc # "importing"
        /\ client' = [pc |-> "importing",
                      providerId |-> providerId,
                      effectiveProviderId |-> effectiveProviderId,
                      providerConfig |-> providerConfig,
                      imported |-> TRUE,
                      thrown |-> None,
                      error |-> None]
        /\ registryAtCall' = [registryAtCall EXCEPT
                                  !.createClient = LookedUp(registry, providerId)]
        /\ UNCHANGED <<aiSdkResult, pc, locked, reads, outstanding, released, readLog, final,
                       prevFinal, emittedBy, failure, returned, resultText, twinVars,
                       peerVars, initialized, registered, clientInfo>>

\* createClient(providerId, modelId, options) up to await providerConfig.import():
\* without a config for the effective provider it throws, and the catch block
\* rethrows the ClientFactoryError.
CreateClient(providerId) ==
    LET effectiveProviderId == EffectiveProviderId(registry, providerId)
        providerConfig == GetProvider(registry, effectiveProviderId)
        notRegistered == ClientFactoryError("Provider \"" \o effectiveProviderId
                                                \o "\" is not registered",
                                            Some(providerId), None)
    IN  /\ client.pc # "importing"
        /\ client' = [pc |-> IF providerConfig = None THEN "rejected" ELSE "importing",
                      providerId |-> providerId,
                      effectiveProviderId |-> effectiveProviderId,
                      providerConfig |-> providerConfig,
                      imported |-> providerConfig # None,
                      thrown |-> IF providerConfig = None THEN Some(notRegistered)
                                 ELSE None,
                      error |-> IF providerConfig = None
                                THEN Some(Catch(notRegistered, providerId))
                                ELSE None]
        /\ registryAtCall' = [registryAtCall EXCEPT
                                  !.createClient = LookedUp(registry, providerId)]
        /\ UNCHANGED <<aiSdkResult, pc, locked, reads, outstanding, released, readLog, final,
                       prevFinal, emittedBy, failure, returned, resultText, twinVars,
                       peerVars, initialized, registered, clientInfo>>

\* createClient from the settling of the import on: the creator function is
\* looked up in the module and called, the provider is called with the model
\* id; what is thrown on the way goes through the catch block.
ImportSettles ==
    /\ client.pc = "importing"
    /\ \E outcome \in ImportOutcomes :
         LET config == client.providerConfig[1]
             thrown ==
                 CASE outcome = "import rejects" -> Some(ErrorValue("import failed"))
                   [] outcome = "import rejects with a non-Error" -> Some(ThrownString)
                   [] outcome = "creator missing" ->
                          Some(ClientFactoryError(
                                   "Creator function \"" \o config.creatorFunctionName
                                       \o "\" not found in the imported module for provider \""
                                       \o client.effectiveProviderId \o "\"",
                                   None, None))
                   [] outcome = "creator throws" -> Some(ErrorValue("invalid options"))
                   [] outcome = "provider not callable" ->
                          Some(ClientFactoryError(
                                   "Unknown model access pattern for provider \""
                                       \o client.effectiveProviderId \o "\"",
                                   None, None))
                   [] outcome = "provider throws" -> Some(ErrorValue("unknown model"))
                   [] OTHER -> None
         IN  client' = [client EXCEPT
                            !.pc = IF thrown = None THEN "resolved" ELSE "rejected",
                            !.thrown = thrown,
                            !.error = IF thrown = None THEN None
                                      ELSE Some(Catch(thrown[1], client.providerId))]
    /\ UNCHANGED <<aiSdkResult, pc, locked, reads, outstanding, released, readLog, final,
                   prevFinal, emittedBy, failure, returned, resultText, twinVars, peerVars,
                   initialized, registered, registryAtCall, clientInfo>>

NextFactory ==
    \/ RegisterProvider
    \/ Cleanup
    \/ \E providerId \in RequestedIds : GetClientInfo(providerId)
    \/ \E providerId \in RequestedIds : CreateClient(providerId)
    \/ ImportSettles

SpecFactory == Init /\ [][NextFactory]_vars

(***************************************************************************)
(* Reading the history.                                                    *)
(***************************************************************************)
RECURSIVE Flatten(_)
Flatten(ss) == IF ss = <<>> THEN <<>> ELSE Head(ss) \o Flatten(Tail(ss))

\* Every onChunk call made so far, in order.
Emitted == Flatten(emittedBy)

\* The number of stream parts convertAndEmitChunk has been called with.
Converted == Len(emittedBy)

\* The sink threw during the conversion of part j.
SinkThrewAt(j) == j = Converted /\ failure = "sink"

OfType(events, t) == SelectSeq(events, LAMBDA e : e.type = t)

CountOfType(events, t) == Len(OfType(events, t))

PartsOfType(t) == SelectSeq(SubSeq(readLog, 1, Converted), LAMBDA c : c.type = t)

RECURSIVE Concat(_)
Concat(strs) == IF strs = <<>> THEN "" ELSE Head(strs) \o Concat(Tail(strs))

TerminalTypes == {"finish", "error"}

ReasoningTypes == {"reasoning", "reasoning-signature", "redacted-reasoning"}

(***************************************************************************)
(* C1.  The TEXT_DELTA events handed to the sink correspond one to one, in *)
(* order, to the text-delta parts converted: as many of them, and the i-th *)
(* event carries the fragment of the i-th part; once processStream has     *)
(* resolved every part read has been converted.                            *)
(***************************************************************************)
C1_TextDeltaVerbatim ==
    LET events == OfType(Emitted, "TEXT_DELTA")
        parts == PartsOfType("text-delta")
    IN  /\ Len(events) = Len(parts)
        /\ \A i \in 1..Len(events) : events[i].text = parts[i].textDelta
        /\ pc = "resolved" => Converted = Len(readLog)

\* Two text-delta parts with different fragments were converted, "b" first.
C1_Witness ==
    /\ Converted = 2
    /\ readLog[1] = [type |-> "text-delta", textDelta |-> "b"]
    /\ readLog[2] = [type |-> "text-delta", textDelta |-> "a"]
    /\ pc = "read"

(***************************************************************************)
(* C2 as claimed.  Once a finish or an error part has been converted, the  *)
(* parts converted after it deliver no event and leave the accumulator as  *)
(* it was, and the sink sees at most one terminal event.                   *)
(***************************************************************************)
C2_DoneIsFinal ==
    /\ \A i \in 1..Converted : \A j \in (i + 1)..Converted :
           readLog[i].type \in TerminalTypes => emittedBy[j] = <<>>
    /\ (Converted >= 2 /\ \E i \in 1..(Converted - 1) : readLog[i].type \in TerminalTypes)
           => final = prevFinal
    /\ CountOfType(Emitted, "LLM_RESPONSE_COMPLETE") + CountOfType(Emitted, "ERROR") <= 1

(***************************************************************************)
(* C2 as amended.  A finish or error part does not end the processing:     *)
(* every part converted delivers what its kind delivers, whatever came     *)
(* before it.  The sink is called with one ERROR per error part and one    *)
(* TEXT_COMPLETE per finish part converted, and with one                   *)
(* LLM_RESPONSE_COMPLETE per finish part whose conversion did not throw.   *)
(***************************************************************************)
C2_NoDonePhase ==
    /\ CountOfType(Emitted, "ERROR") = Len(PartsOfType("error"))
    /\ CountOfType(Emitted, "TEXT_COMPLETE") = Len(PartsOfType("finish"))
    /\ \A j \in 1..Converted :
           (j < Converted \/ failure = "none") =>
               CountOfType(emittedBy[j], "LLM_RESPONSE_COMPLETE")
                   = IF readLog[j].type = "finish" THEN 1 ELSE 0
    /\ \A j \in 1..Converted :
           (readLog[j].type = "text-delta" /\ ~SinkThrewAt(j)) =>
               CountOfType(emittedBy[j], "TEXT_DELTA") = 1

\* A text-delta converted after a finish part delivered its TEXT_DELTA and
\* grew the text buffer.
C2_Witness ==
    /\ Converted = 2
    /\ readLog[1].type = "finish"
    /\ readLog[2].type = "text-delta"
    /\ CountOfType(emittedBy[2], "TEXT_DELTA") = 1
    /\ final.text # prevFinal.text
    /\ failure = "none"

\* The text buffer when part j is converted: the fragments of the text-delta
\* parts before it, concatenated.
TextBefore(j) ==
    LET parts == SelectSeq(SubSeq(readLog, 1, j - 1), LAMBDA c : c.type = "text-delta")
    IN  Concat([i \in 1..Len(parts) |-> parts[i].textDelta])

(***************************************************************************)
(* C3 as claimed.  A finish part delivers exactly TEXT_COMPLETE and then   *)
(* LLM_RESPONSE_COMPLETE, both with the text buffer, whatever its usage    *)
(* payload is (a sink that throws aside).                                  *)
(***************************************************************************)
C3_FinishDeliversBoth ==
    \A j \in 1..Converted :
        (readLog[j].type = "finish" /\ ~SinkThrewAt(j)) =>
            /\ Len(emittedBy[j]) = 2
            /\ emittedBy[j][1] = [type |-> "TEXT_COMPLETE", text |-> TextBefore(j)]
            /\ emittedBy[j][2].type = "LLM_RESPONSE_COMPLETE"
            /\ emittedBy[j][2].response.text = TextBefore(j)

(***************************************************************************)
(* C4 as claimed.  A step-finish or finish part that lacks usage (the      *)
(* payload is absent, or a counter is missing) delivers BLOCK_COMPLETE or  *)
(* LLM_RESPONSE_COMPLETE with 0 for each missing counter, and nothing is   *)
(* thrown by the conversion.                                               *)
(***************************************************************************)
C4_MissingUsageDefaultsToZero ==
    /\ failure # "TypeError"
    /\ \A j \in 1..Converted :
           (readLog[j].type \in {"step-finish", "finish"} /\ ~SinkThrewAt(j)) =>
               LET u == readLog[j].usage
                   want == IF readLog[j].type = "finish" THEN "LLM_RESPONSE_COMPLETE"
                           ELSE "BLOCK_COMPLETE"
                   Missing(field) == u = None \/ u[1][field] = None
               IN  \E k \in 1..Len(emittedBy[j]) :
                       /\ emittedBy[j][k].type = want
                       /\ Missing("completionTokens")
                              => emittedBy[j][k].response.usage.completion_tokens = 0
                       /\ Missing("promptTokens")
                              => emittedBy[j][k].response.usage.prompt_tokens = 0
                       /\ Missing("totalTokens")
                              => emittedBy[j][k].response.usage.total_tokens = 0

\* Part j comes after a part of one of the kinds in types with no text-delta
\* part in between.
FollowsRun(j, types) ==
    \E k \in 1..(j - 1) :
        /\ readLog[k].type \in types
        /\ \A m \in (k + 1)..(j - 1) : readLog[m].type # "text-delta"

(***************************************************************************)
(* C5 as claimed.  A THINKING_COMPLETE is delivered only by the first      *)
(* text-delta part that follows a run of reasoning parts, at most one, and *)
(* by no other part.                                                       *)
(***************************************************************************)
C5_OnlyAtNextTextDelta ==
    \A j \in 1..Converted :
        /\ CountOfType(emittedBy[j], "THINKING_COMPLETE") <= 1
        /\ CountOfType(emittedBy[j], "THINKING_COMPLETE") = 1 =>
               (readLog[j].type = "text-delta" /\ FollowsRun(j, ReasoningTypes))

(***************************************************************************)
(* C5 as amended.  Two kinds of part deliver a THINKING_COMPLETE: every    *)
(* reasoning-signature part delivers one of its own, with the signature,   *)
(* and a text-delta part delivers one, with the buffered reasoning, after  *)
(* its TEXT_DELTA, exactly when it is the first text-delta part after a    *)
(* reasoning part (a reasoning delta; signature and redacted parts buffer  *)
(* nothing).  No other part delivers one, and no part more than one.       *)
(***************************************************************************)
C5_ThinkingCompleteSources ==
    \A j \in 1..Converted :
        LET n == CountOfType(emittedBy[j], "THINKING_COMPLETE")
        IN  CASE readLog[j].type = "reasoning-signature" ->
                     emittedBy[j] = <<[type |-> "THINKING_COMPLETE",
                                       text |-> readLog[j].signature]>>
              [] readLog[j].type = "text-delta" ->
                     \/ SinkThrewAt(j) /\ Len(emittedBy[j]) = 1 /\ n = 0
                     \/ /\ FollowsRun(j, {"reasoning"})
                        /\ Len(emittedBy[j]) = 2
                        /\ emittedBy[j][1].type = "TEXT_DELTA"
                        /\ emittedBy[j][2].type = "THINKING_COMPLETE"
                     \/ ~FollowsRun(j, {"reasoning"}) /\ n = 0
              [] OTHER -> n = 0

\* One stream in which both kinds delivered a THINKING_COMPLETE: a signature
\* part, and a text-delta part flushing a reasoning delta.
C5_Witness ==
    /\ Converted = 3
    /\ readLog[1].type = "reasoning"
    /\ readLog[2].type = "reasoning-signature"
    /\ readLog[3].type = "text-delta"
    /\ CountOfType(emittedBy[2], "THINKING_COMPLETE") = 1
    /\ CountOfType(emittedBy[3], "THINKING_COMPLETE") = 1
    /\ final.reasoning_content = ""

(***************************************************************************)
(* C6.  Once readFullStream has taken the reader, releaseLock is called    *)
(* exactly once before processStream settles, on every way out of the loop *)
(* (end of stream, a read that fails, an exception from the conversion or  *)
(* the sink), and after it nothing is read or converted any more; without  *)
(* a fullStream no reader is taken and none released.                      *)
(***************************************************************************)
C6_ReleasedExactlyOnce ==
    /\ released <= 1
    /\ locked <=> pc \in {"read", "await", "convert", "finally"}
    /\ released = 1 => (~locked /\ pc \in {"text", "resolved", "rejected"})
    /\ (aiSdkResult.fullStream /\ pc \in {"text", "resolved", "rejected"}) => released = 1
    /\ ~aiSdkResult.fullStream => released = 0
    /\ reads <= Len(readLog) + 1

\* processStream rejected with an exception thrown by the conversion of the
\* second part, the reader released.
C6_Witness ==
    /\ pc = "rejected"
    /\ failure = "TypeError"
    /\ Converted = 2
    /\ released = 1
    /\ ~locked

(***************************************************************************)
(* C7.  A read that fails is neither swallowed nor turned into an ERROR    *)
(* event: processStream rejects with it, after the reader was released,    *)
(* the failed read is the last one made (no retry), nothing is delivered   *)
(* to the sink for it and processStream returns nothing.                   *)
(***************************************************************************)
C7_ReadFailureRejects ==
    failure = "read" =>
        /\ pc \in {"finally", "rejected"}
        /\ pc = "rejected" => (released = 1 /\ ~locked)
        /\ reads = Len(readLog) + 1
        /\ Converted = Len(readLog)
        /\ CountOfType(Emitted, "ERROR") = Len(PartsOfType("error"))
        /\ returned = None

\* The third read failed after two parts were converted; processStream has
\* rejected.
C7_Witness ==
    /\ failure = "read"
    /\ pc = "rejected"
    /\ reads = 3
    /\ Converted = 2
    /\ Len(Emitted) >= 2

(***************************************************************************)
(* C8 as claimed.  After consuming a fullStream, processStream resolves to *)
(* the fragments of the text-delta parts read, concatenated in order.      *)
(***************************************************************************)
C8_ReturnsAccumulatedText ==
    (pc = "resolved" /\ aiSdkResult.fullStream) =>
        returned = Some(TextBefore(Len(readLog) + 1))

(***************************************************************************)
(* C8 as amended.  processStream resolves to what the promise              *)
(* aiSdkResult.text resolves to, which the adapter does not compute; with  *)
(* a fullStream it does so only after the read that reported the end of    *)
(* the stream, with every part converted and the reader released.          *)
(***************************************************************************)
C8_ReturnsResultText ==
    /\ returned # None <=> pc = "resolved"
    /\ pc = "resolved" =>
           /\ returned = resultText
           /\ aiSdkResult.fullStream =>
                  /\ reads = Len(readLog) + 1
                  /\ Converted = Len(readLog)
                  /\ released = 1
                  /\ failure = "none"

\* The stream's text-delta parts give "ba" and processStream resolved to the
\* result's text, "ab".
C8_Witness ==
    /\ pc = "resolved"
    /\ aiSdkResult.fullStream
    /\ final.text = "ba"
    /\ returned = Some("ab")

(***************************************************************************)
(* C9.  An error part delivers exactly one ERROR event, with the upstream  *)
(* message, or "Unknown error" when the payload is absent, and no other    *)
(* event; its conversion throws nothing of its own (only a throwing sink   *)
(* makes it fail) and changes no buffer.                                   *)
(***************************************************************************)
C9_ErrorPartDeliversError ==
    \A j \in 1..Converted :
        readLog[j].type = "error" =>
            /\ emittedBy[j] =
                   <<[type |-> "ERROR",
                      error |-> [message |-> IF readLog[j].error = None
                                             THEN "Unknown error"
                                             ELSE readLog[j].error[1]]]>>
            /\ j = Converted => (failure # "TypeError" /\ final = prevFinal)

\* An error part without payload was converted to the default message and
\* the loop goes on to the next read.
C9_Witness ==
    /\ Converted = 2
    /\ readLog[2] = [type |-> "error", error |-> None]
    /\ emittedBy[2] = <<[type |-> "ERROR", error |-> [message |-> "Unknown error"]]>>
    /\ pc = "read"
    /\ failure = "none"

\* The parts both adapters have converted.
ComparedParts == {i \in 1..Converted : i <= twinIdx}

\* Date.now() decides the id of the event of part i.
IdFromClock(i) ==
    /\ readLog[i].type = "source"
    /\ Number(readLog[i].source.id) \in {None, Some(0)}

EraseId(events) == [k \in 1..Len(events) |-> [events[k] EXCEPT !.knowledge[1].id = 0]]

(***************************************************************************)
(* C10 as claimed.  Two adapters fed the same parts deliver the same       *)
(* events, payload for payload.                                            *)
(***************************************************************************)
C10_Deterministic ==
    \A i \in ComparedParts : emittedBy[i] = twinEmittedBy[i]

(***************************************************************************)
(* C10 as amended.  Two adapters fed the same parts deliver the same       *)
(* events, payload for payload, and end with the same buffers, except for  *)
(* the id of the KNOWLEDGE_SEARCH_COMPLETE event of a source part whose id *)
(* is not a number other than 0: that id is the time of the conversion.    *)
(***************************************************************************)
C10_DeterministicButClockId ==
    /\ \A i \in ComparedParts :
           IF IdFromClock(i)
           THEN /\ EraseId(emittedBy[i]) = EraseId(twinEmittedBy[i])
                /\ emittedBy[i][1].knowledge[1].id \in NowValues
                /\ twinEmittedBy[i][1].knowledge[1].id \in NowValues
           ELSE emittedBy[i] = twinEmittedBy[i]
    /\ (twinIdx >= 1 /\ twinIdx = Converted) =>
           (twinFinal = final /\ twinFailure \in {failure, "none"})

\* Both adapters converted a source part with a numeric id, with equal
\* events, and one with a non-numeric id, with events that differ.
C10_Witness ==
    /\ Converted = 2
    /\ twinIdx = 2
    /\ readLog[1].type = "source" /\ ~IdFromClock(1)
    /\ readLog[2].type = "source" /\ IdFromClock(2)
    /\ emittedBy[1] = twinEmittedBy[1]
    /\ emittedBy[2] # twinEmittedBy[2]

\* The accumulator a lone adapter has after converting parts (none of whose
\* conversions throws).
RECURSIVE FinalAfter(_)
FinalAfter(parts) ==
    IF parts = <<>> THEN EmptyFinal
    ELSE ConvertAndEmitChunk(parts[Len(parts)], FinalAfter(SubSeq(parts, 1, Len(parts) - 1)),
                             CHOOSE now \in NowValues : TRUE, 0).final

\* The parts converted before the last one, the unrecognized ones taken out.
RecognizedBeforeLast ==
    SelectSeq(SubSeq(readLog, 1, Converted - 1), LAMBDA c : c.type # "foo")

(***************************************************************************)
(* C11.  A part of an unrecognized kind delivers nothing, changes no       *)
(* buffer and throws nothing, and it changes nothing for the other parts:  *)
(* the accumulator a part meets, what its conversion delivers and throws   *)
(* and the accumulator it leaves are those of the same stream with the     *)
(* unrecognized parts taken out (the sink throwing at the same call).       *)
(***************************************************************************)
C11_UnrecognizedIsNoOp ==
    /\ \A j \in 1..Converted : readLog[j].type = "foo" => emittedBy[j] = <<>>
    /\ (Converted >= 1 /\ readLog[Converted].type = "foo") =>
           (final = prevFinal /\ failure \in {"none", "read"})
    /\ (Converted >= 1 /\ \E j \in 1..Converted : readLog[j].type = "foo") =>
           LET without == FinalAfter(RecognizedBeforeLast)
               sinkFail == IF failure = "sink" THEN Len(emittedBy[Converted]) ELSE 0
           IN  /\ prevFinal = without
               /\ \E now \in NowValues :
                      LET out == ConvertAndEmitChunk(readLog[Converted], without, now,
                                                     sinkFail)
                      IN  /\ emittedBy[Converted] = out.events
                          /\ final = out.final
                          /\ out.threw # "none" => failure = out.threw

\* An unrecognized part stood between a reasoning delta and the text-delta
\* that flushed it.
C11_Witness ==
    /\ Converted = 3
    /\ readLog[1] = [type |-> "reasoning", textDelta |-> "r"]
    /\ readLog[2] = [type |-> "foo"]
    /\ readLog[3] = [type |-> "text-delta", textDelta |-> "a"]
    /\ emittedBy[2] = <<>>
    /\ emittedBy[3] = <<[type |-> "TEXT_DELTA", text |-> "a"],
                        [type |-> "THINKING_COMPLETE", text |-> "r"]>>

\* The kinds of event a part delivers, in the order of the code's onChunk
\* calls; flushes: the part is a text-delta that meets buffered reasoning.
TableOrder(kind, flushes) ==
    CASE kind = "text-delta" ->
             IF flushes THEN <<"TEXT_DELTA", "THINKING_COMPLETE">> ELSE <<"TEXT_DELTA">>
      [] kind = "reasoning" -> <<"THINKING_DELTA">>
      [] kind = "reasoning-signature" -> <<"THINKING_COMPLETE">>
      [] kind = "redacted-reasoning" -> <<"THINKING_DELTA">>
      [] kind = "tool-call-streaming-start" -> <<"MCP_TOOL_CREATED">>
      [] kind = "tool-call-delta" -> <<"MCP_TOOL_IN_PROGRESS">>
      [] kind = "tool-call" -> <<"MCP_TOOL_CREATED">>
      [] kind = "tool-result" -> <<"MCP_TOOL_COMPLETE">>
      [] kind = "step-finish" -> <<"BLOCK_COMPLETE">>
      [] kind = "finish" -> <<"TEXT_COMPLETE", "LLM_RESPONSE_COMPLETE">>
      [] kind = "source" -> <<"KNOWLEDGE_SEARCH_COMPLETE">>
      [] kind = "file" -> <<"IMAGE_COMPLETE">>
      [] kind = "error" -> <<"ERROR">>
      [] OTHER -> <<>>

KindsOf(events) == [k \in 1..Len(events) |-> events[k].type]

(***************************************************************************)
(* C12.  The sink is called in emission order and before processStream     *)
(* resolves: a part is read only when every part before it has been        *)
(* converted, the calls made for a part are those of its kind in the       *)
(* table's order (all of them unless its conversion threw, and then the    *)
(* first of them), and when processStream has resolved the calls of every  *)
(* part read have been made.                                               *)
(***************************************************************************)
C12_SinkInEmissionOrder ==
    /\ Converted <= Len(readLog)
    /\ Len(readLog) <= Converted + 1
    /\ Len(readLog) = Converted + 1 <=> pc = "convert"
    /\ pc = "resolved" => (Converted = Len(readLog) /\ failure = "none")
    /\ \A j \in 1..Converted :
           LET table == TableOrder(readLog[j].type,
                                   readLog[j].type = "text-delta"
                                       /\ FollowsRun(j, {"reasoning"}))
               got == KindsOf(emittedBy[j])
           IN  IF j = Converted /\ failure \in {"sink", "TypeError"}
               THEN Len(got) <= Len(table) /\ got = SubSeq(table, 1, Len(got))
               ELSE got = table

\* processStream resolved after a stream whose parts made two sink calls
\* each: a text-delta flushing reasoning, and a finish.
C12_Witness ==
    /\ pc = "resolved"
    /\ Converted = 3
    /\ KindsOf(emittedBy[2]) = <<"TEXT_DELTA", "THINKING_COMPLETE">>
    /\ KindsOf(emittedBy[3]) = <<"TEXT_COMPLETE", "LLM_RESPONSE_COMPLETE">>

\* The last conversion delivered a THINKING_COMPLETE.
LastDeliveredThinkingComplete ==
    Converted >= 1 /\ CountOfType(emittedBy[Converted], "THINKING_COMPLETE") >= 1

(***************************************************************************)
(* C13 as claimed.  A conversion that empties a non-empty reasoning buffer *)
(* delivers a THINKING_COMPLETE with its contents, and a conversion that   *)
(* delivers a THINKING_COMPLETE leaves the reasoning buffer empty (a sink  *)
(* that throws aside).                                                     *)
(***************************************************************************)
C13_ClearedExactlyWhenFlushed ==
    (Converted >= 1 /\ failure # "sink") =>
        /\ (prevFinal.reasoning_content # "" /\ final.reasoning_content = "") =>
               \E k \in 1..Len(emittedBy[Converted]) :
                   emittedBy[Converted][k] =
                       [type |-> "THINKING_COMPLETE", text |-> prevFinal.reasoning_content]
        /\ LastDeliveredThinkingComplete => final.reasoning_content = ""

(***************************************************************************)
(* C13 as amended.  A conversion that empties a non-empty reasoning buffer *)
(* is that of a text-delta part and delivers, last, a THINKING_COMPLETE    *)
(* with the buffer's contents; a text-delta part that delivers a           *)
(* THINKING_COMPLETE leaves the buffer empty, unless the sink threw on     *)
(* that call; a reasoning-signature part delivers a THINKING_COMPLETE and  *)
(* leaves the buffer as it was, empty or not.                              *)
(***************************************************************************)
C13_ClearedByTextDeltaFlush ==
    Converted >= 1 =>
        LET last == readLog[Converted]
            sunk == emittedBy[Converted]
        IN  /\ (prevFinal.reasoning_content # "" /\ final.reasoning_content = "") =>
                   /\ last.type = "text-delta"
                   /\ sunk[Len(sunk)] = [type |-> "THINKING_COMPLETE",
                                         text |-> prevFinal.reasoning_content]
            /\ (last.type = "text-delta" /\ LastDeliveredThinkingComplete) =>
                   (final.reasoning_content = "" \/ failure = "sink")
            /\ last.type = "reasoning-signature" =>
                   (LastDeliveredThinkingComplete /\ final = prevFinal)

\* A reasoning-signature part delivered a THINKING_COMPLETE while the buffer
\* held "r", and the buffer still holds it.
C13_Witness ==
    /\ Converted = 2
    /\ readLog[2].type = "reasoning-signature"
    /\ LastDeliveredThinkingComplete
    /\ prevFinal.reasoning_content = "r"
    /\ final.reasoning_content = "r"

(***************************************************************************)
(* C14.  The text buffer only grows by appending: it is the fragments of   *)
(* the text-delta parts converted so far, concatenated in order, and each  *)
(* conversion leaves it as it was or appends the fragment of its part.     *)
(***************************************************************************)
C14_TextBufferAppendOnly ==
    /\ final.text = TextBefore(Converted + 1)
    /\ Converted >= 1 =>
           /\ prevFinal.text = TextBefore(Converted)
           /\ final.text = prevFinal.text \o
                  (IF readLog[Converted].type = "text-delta"
                   THEN readLog[Converted].textDelta ELSE "")

\* The buffer grew from "a" to "ab" across a step-finish part.
C14_Witness ==
    /\ Converted = 3
    /\ readLog[2].type = "step-finish"
    /\ prevFinal.text = "a"
    /\ final.text = "ab"

\* The fragments of the reasoning parts converted after the last text-delta
\* part, concatenated in order.
RECURSIVE ReasoningSinceTextDelta(_)
ReasoningSinceTextDelta(j) ==
    IF j = 0 \/ readLog[j].type = "text-delta" THEN ""
    ELSE ReasoningSinceTextDelta(j - 1) \o
             (IF readLog[j].type = "reasoning" THEN readLog[j].textDelta ELSE "")

(***************************************************************************)
(* C15.  After a text-delta part has been converted (its sink calls made   *)
(* without an exception) the reasoning buffer is empty, and at every point *)
(* the buffer holds the reasoning fragments that came after the last       *)
(* text-delta part and no other: a THINKING_COMPLETE never joins fragments *)
(* from both sides of a text-delta.                                        *)
(***************************************************************************)
C15_EmptyAfterTextDelta ==
    failure # "sink" =>
        /\ (Converted >= 1 /\ readLog[Converted].type = "text-delta") =>
               final.reasoning_content = ""
        /\ final.reasoning_content = ReasoningSinceTextDelta(Converted)

\* Reasoning "r" was flushed by the text-delta, and the buffer holds only the
\* fragment that came after it.
C15_Witness ==
    /\ Converted = 3
    /\ readLog[1] = [type |-> "reasoning", textDelta |-> "r"]
    /\ readLog[2].type = "text-delta"
    /\ readLog[3] = [type |-> "reasoning", textDelta |-> "s"]
    /\ final.reasoning_content = "s"

(***************************************************************************)
(* C17.  The cursor is read one part at a time: at most one reader.read()  *)
(* is outstanding, it is outstanding exactly while readFullStream awaits   *)
(* it, and it was issued only after every earlier read had settled and     *)
(* every part read had been converted, its sink calls made.                *)
(***************************************************************************)
C17_OneReadOutstanding ==
    /\ outstanding \in {0, 1}
    /\ outstanding = 1 <=> pc = "await"
    /\ outstanding = 1 => (Converted = Len(readLog) /\ reads = Len(readLog) + 1)
    /\ reads <= Len(readLog) + 1

\* The third read is outstanding, after the two sink calls of the second part.
C17_Witness ==
    /\ pc = "await"
    /\ outstanding = 1
    /\ reads = 3
    /\ Converted = 2
    /\ Len(emittedBy[2]) = 2

\* Part j is a text-delta that delivered a THINKING_COMPLETE: a flush.
Flushed(j) ==
    readLog[j].type = "text-delta" /\ CountOfType(emittedBy[j], "THINKING_COMPLETE") >= 1

\* The fragments of the reasoning parts among the first j parts that came
\* after the last flush (or the start of the stream), concatenated in order.
RECURSIVE ReasoningSinceFlush(_)
ReasoningSinceFlush(j) ==
    IF j = 0 \/ Flushed(j) THEN ""
    ELSE ReasoningSinceFlush(j - 1) \o
             (IF readLog[j].type = "reasoning" THEN readLog[j].textDelta ELSE "")

(***************************************************************************)
(* C19.  A text-delta part that meets buffered reasoning delivers its      *)
(* TEXT_DELTA first and then exactly one THINKING_COMPLETE, whose text is  *)
(* the concatenation, in order, of the fragments of all the reasoning      *)
(* parts since the previous flush (or the start of the stream), whatever   *)
(* other parts stood between them; one that meets an empty buffer delivers *)
(* its TEXT_DELTA only.  (When the sink throws, the calls up to and with   *)
(* the throwing one have been made.)                                       *)
(***************************************************************************)
C19_FlushCarriesPendingReasoning ==
    \A j \in 1..Converted :
        readLog[j].type = "text-delta" =>
            LET pending == ReasoningSinceFlush(j - 1)
                delta == [type |-> "TEXT_DELTA", text |-> readLog[j].textDelta]
                due == IF pending = "" THEN <<delta>>
                       ELSE <<delta, [type |-> "THINKING_COMPLETE", text |-> pending]>>
            IN  IF SinkThrewAt(j)
                THEN /\ Len(emittedBy[j]) <= Len(due)
                     /\ emittedBy[j] = SubSeq(due, 1, Len(emittedBy[j]))
                ELSE emittedBy[j] = due

\* Two reasoning fragments, then a text-delta that flushed both as one
\* THINKING_COMPLETE after its TEXT_DELTA.
C19_Witness ==
    /\ Converted = 3
    /\ readLog[1] = [type |-> "reasoning", textDelta |-> "r"]
    /\ readLog[2] = [type |-> "reasoning", textDelta |-> "s"]
    /\ emittedBy[3] = <<[type |-> "TEXT_DELTA", text |-> "a"],
                        [type |-> "THINKING_COMPLETE", text |-> "rs"]>>

(***************************************************************************)
(* C20.  A finish or error part that meets buffered reasoning does not     *)
(* flush it: the part delivers no THINKING_COMPLETE and leaves the         *)
(* accumulator as it was; of the events a finish part delivers only        *)
(* LLM_RESPONSE_COMPLETE carries the pending reasoning, as the             *)
(* reasoning_content of its response; and when the stream ends after such  *)
(* a part the reasoning is still in the buffer, delivered in no            *)
(* THINKING_COMPLETE.                                                      *)
(***************************************************************************)
C20_TerminalPartDoesNotFlush ==
    /\ \A j \in 1..Converted :
           readLog[j].type \in TerminalTypes =>
               LET pending == ReasoningSinceTextDelta(j - 1)
               IN  /\ CountOfType(emittedBy[j], "THINKING_COMPLETE") = 0
                   /\ \A k \in 1..Len(emittedBy[j]) :
                          LET event == emittedBy[j][k]
                          IN  CASE event.type = "LLM_RESPONSE_COMPLETE" ->
                                       event.response.reasoning_content = pending
                                [] event.type = "TEXT_COMPLETE" ->
                                       pending # "" => event.text # pending
                                [] OTHER -> event.type = "ERROR"
    /\ (Converted >= 1 /\ readLog[Converted].type \in TerminalTypes) =>
           /\ final = prevFinal
           /\ final.reasoning_content = ReasoningSinceTextDelta(Converted - 1)

\* The stream ended after a finish part that met the buffered reasoning "r":
\* processStream resolved, "r" went out in the response only and is still
\* in the buffer.
C20_Witness ==
    /\ pc = "resolved"
    /\ Converted = 2
    /\ readLog[1] = [type |-> "reasoning", textDelta |-> "r"]
    /\ readLog[2].type = "finish"
    /\ Len(emittedBy[2]) = 2
    /\ emittedBy[2][2].response.reasoning_content = "r"
    /\ final.reasoning_content = "r"
    /\ CountOfType(Emitted, "THINKING_COMPLETE") = 0

\* What a lone adapter delivers for part j of the stream parts, its sink
\* never throwing.
AloneEvents(parts, j) ==
    ConvertAndEmitChunk(parts[j], FinalAfter(SubSeq(parts, 1, j - 1)),
                        CHOOSE now \in NowValues : TRUE, 0).events

(***************************************************************************)
(* C16.  Two adapter instances processing two streams at once share no     *)
(* mutable state: under every interleaving of their steps each delivers to *)
(* its own sink, part by part, the events it delivers for its stream when  *)
(* it runs alone (up to the throwing call when its sink throws), and each  *)
(* accumulator is the one its own stream alone gives.                      *)
(***************************************************************************)
C16_InstancesIndependent ==
    /\ Len(peerEmittedBy) <= Len(peerLog)
    /\ \A j \in 1..Converted :
           IF SinkThrewAt(j)
           THEN emittedBy[j] = SubSeq(AloneEvents(readLog, j), 1, Len(emittedBy[j]))
           ELSE emittedBy[j] = AloneEvents(readLog, j)
    /\ \A j \in 1..Len(peerEmittedBy) : peerEmittedBy[j] = AloneEvents(peerLog, j)
    /\ failure # "sink" => final = FinalAfter(SubSeq(readLog, 1, Converted))
    /\ peerFinal = FinalAfter(SubSeq(peerLog, 1, Len(peerEmittedBy)))

\* Both instances are in mid-stream, two parts converted each: one has
\* flushed reasoning at a text-delta, the other reported a step's text.
C16_Witness ==
    /\ pc = "read"
    /\ peerPc = "read"
    /\ Converted = 2
    /\ Len(peerEmittedBy) = 2
    /\ emittedBy[2] = <<[type |-> "TEXT_DELTA", text |-> "a"],
                        [type |-> "THINKING_COMPLETE", text |-> "r"]>>
    /\ peerLog[1].type = "text-delta"
    /\ peerLog[2].type = "step-finish"
    /\ peerEmittedBy[2][1].response.text = "a"
    /\ peerEmittedBy[2][1].response.reasoning_content = ""

\* A createClient call has been made.
ClientCalled == client.pc # "idle"

(***************************************************************************)
(* C18 as claimed.  createClient and getClientInfo resolve an id that is   *)
(* not registered to the config of 'openai-compatible' and a registered id *)
(* to its own config: the effective provider is the requested id exactly   *)
(* when the id is supported at the call, and 'openai-compatible' when not. *)
(***************************************************************************)
C18_FallsBackToCompatibleConfig ==
    /\ ClientCalled =>
           LET met == registryAtCall.createClient
           IN  /\ client.effectiveProviderId = client.providerId
                      <=> IsSupported(met, client.providerId)
               /\ ~IsSupported(met, client.providerId) =>
                      /\ client.effectiveProviderId = "openai-compatible"
                      /\ client.providerConfig # None
                      /\ client.providerConfig[1].id = "openai-compatible"
               /\ IsSupported(met, client.providerId) =>
                      client.providerConfig = Some(met[client.providerId])
    /\ clientInfo # None =>
           LET met == registryAtCall.getClientInfo
               info == clientInfo[1]
           IN  /\ info.effectiveProvider = info.id <=> IsSupported(met, info.id)
               /\ ~IsSupported(met, info.id) =>
                      /\ info.effectiveProvider = "openai-compatible"
                      /\ IsSupported(met, "openai-compatible")
                      /\ info.name = met["openai-compatible"].name

(***************************************************************************)
(* C18 as amended.  The effective provider is the requested id when the id *)
(* is supported at the call and 'openai-compatible' when not, and the      *)
(* config is the one the registry holds for the effective provider at the  *)
(* call: a registered id gets its own config, an unregistered one that of  *)
(* 'openai-compatible' if that is registered.  If it is not, there is no   *)
(* config: createClient rejects with the ClientFactoryError "not           *)
(* registered" and getClientInfo names the provider by the requested id.   *)
(***************************************************************************)
C18_EffectiveProviderAtCall ==
    /\ ClientCalled =>
           LET met == registryAtCall.createClient
               effective == IF IsSupported(met, client.providerId)
                            THEN client.providerId ELSE "openai-compatible"
           IN  /\ client.effectiveProviderId = effective
               /\ client.providerConfig = GetProvider(met, effective)
               /\ client.providerConfig # None => client.providerConfig[1].id = effective
               /\ client.providerConfig = None =>
                      /\ ~IsSupported(met, client.providerId)
                      /\ ~IsSupported(met, "openai-compatible")
                      /\ client.pc = "rejected"
                      /\ client.error =
                             Some(ClientFactoryError(
                                      "Provider \"openai-compatible\" is not registered",
                                      Some(client.providerId), None))
    /\ clientInfo # None =>
           LET met == registryAtCall.getClientInfo
               info == clientInfo[1]
               effective == IF IsSupported(met, info.id) THEN info.id
                            ELSE "openai-compatible"
           IN  /\ info.effectiveProvider = effective
               /\ info.isSupported = IsSupported(met, info.id)
               /\ info.name = IF IsSupported(met, effective) THEN met[effective].name
                              ELSE info.id

\* createClient resolved an unregistered id through the config of
\* 'openai-compatible', and getClientInfo reports the same for it.
C18_Witness ==
    /\ client.pc = "resolved"
    /\ client.providerId = "unlisted"
    /\ client.effectiveProviderId = "openai-compatible"
    /\ client.providerConfig[1].creatorFunctionName = "createOpenAICompatible"
    /\ clientInfo = Some([id |-> "unlisted", name |-> "OpenAI Compatible",
                          isSupported |-> FALSE,
                          effectiveProvider |-> "openai-compatible"])

(***************************************************************************)
(* C21 as claimed.  A step-finish part delivers exactly one BLOCK_COMPLETE *)
(* whose response carries the text buffer and the reasoning buffer as they *)
(* are, and leaves both buffers unchanged (a sink that throws aside).      *)
(***************************************************************************)
C21_StepFinishDeliversSnapshot ==
    \A j \in 1..Converted :
        (readLog[j].type = "step-finish" /\ ~SinkThrewAt(j)) =>
            /\ Len(emittedBy[j]) = 1
            /\ emittedBy[j][1].type = "BLOCK_COMPLETE"
            /\ emittedBy[j][1].response.text = TextBefore(j)
            /\ emittedBy[j][1].response.reasoning_content = ReasoningSinceTextDelta(j - 1)
            /\ j = Converted => final = prevFinal

\* The kinds that deliver one event and touch no buffer, with the event each
\* delivers.
SingleEventOf(chunk) ==
    CASE chunk.type = "reasoning-signature" ->
             [type |-> "THINKING_COMPLETE", text |-> chunk.signature]
      [] chunk.type = "redacted-reasoning" ->
             [type |-> "THINKING_DELTA", text |-> chunk.data]
      [] chunk.type = "tool-call-streaming-start" ->
             [type |-> "MCP_TOOL_CREATED", status |-> ""]
      [] chunk.type = "tool-call-delta" ->
             [type |-> "MCP_TOOL_IN_PROGRESS", status |-> "invoking"]
      [] chunk.type = "tool-call" ->
             [type |-> "MCP_TOOL_CREATED", status |-> ""]
      [] chunk.type = "tool-result" ->
             [type |-> "MCP_TOOL_COMPLETE", status |-> "done"]
      [] chunk.type = "source" ->
             [type |-> "KNOWLEDGE_SEARCH_COMPLETE", status |-> ""]
      [] chunk.type = "file" ->
             [type |-> "IMAGE_COMPLETE", status |-> ""]

SingleEventKinds ==
    {"reasoning-signature", "redacted-reasoning", "tool-call-streaming-start",
     "tool-call-delta", "tool-call", "tool-result", "source", "file"}

(***************************************************************************)
(* C22.  Only text-delta and reasoning parts change the accumulator.  Each *)
(* reasoning-signature, redacted-reasoning, tool-call-streaming-start,     *)
(* tool-call-delta, tool-call, tool-result, source and file part makes one *)
(* sink call, with the event of its kind (THINKING_COMPLETE with the       *)
(* signature, THINKING_DELTA with the redacted data, MCP_TOOL_CREATED,     *)
(* MCP_TOOL_IN_PROGRESS with status invoking, MCP_TOOL_CREATED,            *)
(* MCP_TOOL_COMPLETE with status done, KNOWLEDGE_SEARCH_COMPLETE,          *)
(* IMAGE_COMPLETE), and leaves both buffers as they were.                  *)
(***************************************************************************)
C22_OnlyDeltasChangeAccumulator ==
    /\ (Converted >= 1 /\ readLog[Converted].type \notin {"text-delta", "reasoning"}) =>
           final = prevFinal
    /\ \A j \in 1..Converted :
           readLog[j].type \in SingleEventKinds =>
               LET due == SingleEventOf(readLog[j])
               IN  /\ Len(emittedBy[j]) = 1
                   /\ emittedBy[j][1].type = due.type
                   /\ due.type \in {"THINKING_COMPLETE", "THINKING_DELTA"} =>
                          emittedBy[j][1] = due
                   /\ due.type \in {"MCP_TOOL_IN_PROGRESS", "MCP_TOOL_COMPLETE"} =>
                          /\ Len(emittedBy[j][1].responses) = 1
                          /\ emittedBy[j][1].responses[1].status = due.status
                          /\ emittedBy[j][1].responses[1].id = readLog[j].toolCallId
                   /\ due.type = "MCP_TOOL_CREATED" =>
                          /\ Len(emittedBy[j][1].tool_calls) = 1
                          /\ emittedBy[j][1].tool_calls[1].id = readLog[j].toolCallId

\* Reasoning "r" and text "a" were buffered, and a tool-result part then
\* delivered its MCP_TOOL_COMPLETE with both buffers left alone.
C22_Witness ==
    /\ Converted = 3
    /\ readLog[3].type = "tool-result"
    /\ prevFinal = [text |-> "a", reasoning_content |-> "r"]
    /\ final = prevFinal
    /\ emittedBy[3][1].responses[1].status = "done"

\* The events the sink took from the j-th part: all of them, but for the one
\* of the call that threw.
TakenBy(j) ==
    IF SinkThrewAt(j) THEN SubSeq(emittedBy[j], 1, Len(emittedBy[j]) - 1) ELSE emittedBy[j]

\* The texts of the THINKING_COMPLETE events the sink took from the
\* text-delta parts (the flushes), concatenated in order.
FlushedReasoning ==
    LET flushes == [j \in 1..Converted |->
                       IF readLog[j].type = "text-delta"
                       THEN Concat([k \in 1..Len(OfType(TakenBy(j), "THINKING_COMPLETE")) |->
                                       OfType(TakenBy(j), "THINKING_COMPLETE")[k].text])
                       ELSE ""]
    IN  Concat(flushes)

\* The fragments of the reasoning parts converted so far, concatenated in order.
ReasoningRead ==
    LET parts == PartsOfType("reasoning")
    IN  Concat([i \in 1..Len(parts) |-> parts[i].textDelta])

(***************************************************************************)
(* C24.  Reasoning is conserved: at every point the texts of the flushes   *)
(* the sink took so far, concatenated in order, followed by the reasoning  *)
(* buffer, are the fragments of the reasoning parts converted so far,      *)
(* concatenated in order.                                                  *)
(***************************************************************************)
C24_ReasoningConserved ==
    FlushedReasoning \o final.reasoning_content = ReasoningRead

\* "r" was flushed by the text-delta and "s" is in the buffer.
C24_Witness ==
    /\ Converted = 3
    /\ FlushedReasoning = "r"
    /\ final.reasoning_content = "s"
    /\ ReasoningRead = "rs"

(***************************************************************************)
(* C29.  When the result has no fullStream, processStream takes no reader  *)
(* (nothing is read, locked or released), calls the sink with nothing, and *)
(* resolves to what the result's text resolves to.                         *)
(***************************************************************************)
C29_NoFullStreamNoEvents ==
    ~aiSdkResult.fullStream =>
        /\ pc \in {"start", "text", "resolved"}
        /\ ~locked
        /\ reads = 0
        /\ outstanding = 0
        /\ released = 0
        /\ readLog = <<>>
        /\ emittedBy = <<>>
        /\ failure = "none"
        /\ pc = "resolved" => (resultText # None /\ returned = resultText)

\* processStream resolved, without a fullStream, to the result's text "zz".
C29_Witness ==
    /\ ~aiSdkResult.fullStream
    /\ pc = "resolved"
    /\ returned = Some("zz")
    /\ emittedBy = <<>>

C27_WrapsWithOriginalAsCause ==
    client.pc = "rejected" =>
        /\ client.thrown # None
        /\ client.error # None
        /\ client.error[1].name = "ClientFactoryError"
        /\ client.thrown[1].name = "ClientFactoryError" => client.error = client.thrown
        /\ client.thrown[1].name # "ClientFactoryError" =>
               /\ client.error[1].providerId = Some(client.providerId)
               /\ client.error[1].cause = client.thrown

(***************************************************************************)
(* C27 as amended.  createClient rejects with a ClientFactoryError only: a *)
(* ClientFactoryError thrown inside is rethrown as it is, and anything     *)
(* else thrown is wrapped in a ClientFactoryError with the requested       *)
(* provider id; the cause is what was thrown when that is an Error, and    *)
(* absent (the message ending in "Unknown error") when it is not.          *)
(***************************************************************************)
C27_FailuresSurfaceAsClientFactoryError ==
    /\ client.pc = "rejected" =>
           /\ client.thrown # None
           /\ client.error # None
           /\ client.error[1].name = "ClientFactoryError"
           /\ client.thrown[1].name = "ClientFactoryError" => client.error = client.thrown
           /\ client.thrown[1].name = "Error" =>
                  /\ client.error[1].providerId = Some(client.providerId)
                  /\ client.error[1].cause = client.thrown
                  /\ client.error[1].message =
                         "Failed to create client for provider \"" \o client.providerId
                             \o "\": " \o client.thrown[1].message
           /\ client.thrown[1].name \notin {"ClientFactoryError", "Error"} =>
                  /\ client.error[1].providerId = Some(client.providerId)
                  /\ client.error[1].cause = None
                  /\ client.error[1].message =
                         "Failed to create client for provider \"" \o client.providerId
                             \o "\": Unknown error"
    /\ client.pc \in {"idle", "importing", "resolved"} =>
           client.thrown = None /\ client.error = None

\* The import for an unregistered id, made through 'openai-compatible',
\* rejected with an Error, which was wrapped under the requested id.
C27_Witness ==
    /\ client.pc = "rejected"
    /\ client.providerId = "unlisted"
    /\ client.effectiveProviderId = "openai-compatible"
    /\ client.thrown = Some(ErrorValue("import failed"))
    /\ client.error[1].name = "ClientFactoryError"
    /\ client.error[1].providerId = Some("unlisted")
    /\ client.error[1].cause = client.thrown

(***************************************************************************)
(* C28.  The fallback follows the registry as it is at the call.  When     *)
(* neither the requested id nor 'openai-compatible' is registered then,    *)
(* createClient rejects with the ClientFactoryError "not registered" under *)
(* the requested id and imports nothing; when the requested id is          *)
(* registered then, by registerProvider too, it is resolved to its own     *)
(* config and the import of that config is made.                           *)
(***************************************************************************)
C28_FallbackFollowsRegistry ==
    ClientCalled =>
        LET met == registryAtCall.createClient
        IN  /\ (~IsSupported(met, client.providerId)
                    /\ ~IsSupported(met, "openai-compatible")) =>
                   /\ client.pc = "rejected"
                   /\ ~client.imported
                   /\ client.providerConfig = None
                   /\ client.error =
                          Some(ClientFactoryError(
                                   "Provider \"openai-compatible\" is not registered",
                                   Some(client.providerId), None))
            /\ IsSupported(met, client.providerId) =>
                   /\ client.effectiveProviderId = client.providerId
                   /\ client.providerConfig = Some(met[client.providerId])
                   /\ client.imported
            /\ (\E config \in RegisteredConfigs :
                    config.id = client.providerId /\ met = MapSet(EmptyMap, config)) =>
                   client.providerConfig[1] \in RegisteredConfigs

\* After cleanup and registerProvider of "custom", createClient of an id not
\* registered was rejected without an import.
C28_Witness ==
    /\ ~initialized
    /\ DOMAIN registered = {"custom"}
    /\ client.providerId = "unlisted"
    /\ registryAtCall.createClient = EmptyMap
    /\ client.pc = "rejected"
    /\ ~client.imported
    /\ client.error[1].message = "Provider \"openai-compatible\" is not registered"

\* processStream has settled.
Settled == pc \in {"resolved", "rejected"}

(***************************************************************************)
(* C25 as claimed.  On a finite stream whose reads all return and whose    *)
(* text becomes available, processStream settles in the end with every     *)
(* part read once, up to the end of the stream, and the reader released.   *)
(***************************************************************************)
C25_SettlesWithEveryRecordRead ==
    <>(/\ Settled
       /\ aiSdkResult.fullStream =>
              /\ reads = Len(readLog) + 1
              /\ Converted = Len(readLog)
              /\ released = 1
              /\ ~locked)

(***************************************************************************)
(* C25 as amended.  On a finite stream whose reads all return and whose    *)
(* text becomes available, processStream settles in the end and stays      *)
(* settled, with the reader released once, no read outstanding and every   *)
(* part read converted.  It resolves after one read for each part and one  *)
(* for the end of the stream; when converting or delivering a part threw,  *)
(* it rejects after one read for each part up to that one, and the rest of *)
(* the stream is not read.                                                 *)
(***************************************************************************)
C25_EventuallySettles ==
    <>[](/\ Settled
         /\ pc = "resolved" <=> failure = "none"
         /\ pc = "resolved" => returned # None
         /\ aiSdkResult.fullStream =>
                /\ released = 1
                /\ ~locked
                /\ outstanding = 0
                /\ Converted = Len(readLog)
                /\ pc = "resolved" => reads = Len(readLog) + 1
                /\ pc = "rejected" =>
                       /\ failure \in {"TypeError", "sink"}
                       /\ reads = Len(readLog))

\* Three parts were read and converted, the fourth read gave the end of the
\* stream, the reader was released and processStream resolved.
C25_Witness ==
    /\ aiSdkResult.fullStream
    /\ pc = "resolved"
    /\ Len(readLog) = 3
    /\ Converted = 3
    /\ reads = 4
    /\ released = 1
    /\ ~locked

\* What a lone call delivers for the stream parts, part by part, and the
\* accumulator it ends with, starting from the accumulator acc, its sink
\* never throwing.
RECURSIVE AloneRun(_, _)
AloneRun(parts, acc) ==
    IF parts = <<>> THEN [batches |-> <<>>, final |-> acc]
    ELSE LET out == ConvertAndEmitChunk(Head(parts), acc, CHOOSE now \in NowValues : TRUE, 0)
             rest == AloneRun(Tail(parts), out.final)
         IN  [batches |-> <<out.events>> \o rest.batches, final |-> rest.final]

\* What the sink of the instance got, in order: for each part converted by
\* either call, the call and the onChunk calls made for the part.
RECURSIVE SinkFrom(_, _)
SinkFrom(i, k) ==
    IF k <= Len(sharedAt) /\ sharedAt[k] < i
    THEN <<[call |-> 2, events |-> peerEmittedBy[k]]>> \o SinkFrom(i, k + 1)
    ELSE IF i <= Converted
         THEN <<[call |-> 1, events |-> emittedBy[i]]>> \o SinkFrom(i + 1, k)
         ELSE <<>>

SharedSink == SinkFrom(1, 1)

Range(seq) == {seq[i] : i \in 1..Len(seq)}

\* fragment, n times over.
RECURSIVE Repeated(_, _)
Repeated(fragment, n) == IF n = 0 THEN "" ELSE fragment \o Repeated(fragment, n - 1)

\* The events of the types that carry buffered text, and those that carry
\* buffered reasoning, among the events delivered for a stream.
CarriedTexts(batches) ==
    {e.text : e \in {f \in Range(Flatten(batches)) : f.type = "TEXT_COMPLETE"}}
    \cup {e.response.text :
             e \in {f \in Range(Flatten(batches)) : f.type = "LLM_RESPONSE_COMPLETE"}}

CarriedReasoning(batches) ==
    {e.text : e \in {f \in Range(Flatten(batches)) : f.type = "THINKING_COMPLETE"}}
    \cup {e.response.reasoning_content :
             e \in {f \in Range(Flatten(batches)) : f.type = "LLM_RESPONSE_COMPLETE"}}

(***************************************************************************)
(* C26.  The accumulator belongs to the call: when one adapter instance    *)
(* runs two processStream calls on two streams at once, under every        *)
(* interleaving each call delivers, part by part, the events it delivers   *)
(* for its stream when it runs alone (up to the throwing call when the     *)
(* sink throws) and has the accumulator its own stream alone gives; every  *)
(* text and reasoning a TEXT_COMPLETE, THINKING_COMPLETE or                *)
(* LLM_RESPONSE_COMPLETE carries is made of the fragments of the call's    *)
(* own stream only, while the one sink gets the events of both calls.      *)
(***************************************************************************)
C26_CallsDoNotMix ==
    /\ LET alone == AloneRun(SubSeq(readLog, 1, Converted), EmptyFinal)
       IN  /\ \A j \in 1..Converted :
                  IF SinkThrewAt(j)
                  THEN emittedBy[j] = SubSeq(alone.batches[j], 1, Len(emittedBy[j]))
                  ELSE emittedBy[j] = alone.batches[j]
           /\ failure # "sink" => final = alone.final
    /\ LET alone == AloneRun(peerLog, EmptyFinal)
       IN  /\ Len(peerEmittedBy) = Len(peerLog)
           /\ \A j \in 1..Len(peerLog) :
                  IF j = Len(peerLog) /\ peerPc = "rejected"
                  THEN peerEmittedBy[j] = SubSeq(alone.batches[j], 1, Len(peerEmittedBy[j]))
                  ELSE peerEmittedBy[j] = alone.batches[j]
           /\ peerPc # "rejected" => peerFinal = alone.final
    /\ CarriedTexts(emittedBy) \subseteq {Repeated("a", n) : n \in 0..Len(readLog)}
    /\ CarriedReasoning(emittedBy) \subseteq {Repeated("r", n) : n \in 0..Len(readLog)}
    /\ CarriedTexts(peerEmittedBy) \subseteq {Repeated("b", n) : n \in 0..Len(peerLog)}
    /\ CarriedReasoning(peerEmittedBy) \subseteq {Repeated("s", n) : n \in 0..Len(peerLog)}
    /\ Len(SharedSink) = Converted + Len(peerEmittedBy)
    /\ Len(sharedAt) = Len(peerEmittedBy)

\* The sink got the parts of the two calls alternately, the first call's
\* reasoning "r", the second call's "s", then each call's text-delta with the
\* flush of its own reasoning.
C26_Witness ==
    /\ Len(SharedSink) = 4
    /\ [i \in 1..4 |-> SharedSink[i].call] = <<1, 2, 1, 2>>
    /\ SharedSink[3].events = <<[type |-> "TEXT_DELTA", text |-> "a"],
                                [type |-> "THINKING_COMPLETE", text |-> "r"]>>
    /\ SharedSink[4].events = <<[type |-> "TEXT_DELTA", text |-> "b"],
                                [type |-> "THINKING_COMPLETE", text |-> "s"]>>

====
